---- MODULE Spec2Model ----
(***************************************************************************)
(* A model of the extraction engine of laravel-i18n-refactor.              *)
(*                                                                         *)
(* A text is a sequence of characters; a character is a one-character      *)
(* string (a character outside ASCII is written by its code point name,    *)
(* "U3053" for HIRAGANA KO).  Offsets, columns and slices are 0-based and  *)
(* half-open as in the Python source; lines are 1-based.                   *)
(***************************************************************************)
EXTENDS Integers, Sequences, FiniteSets, TLC

VARIABLES
    pc,               \* position of the driver of the specification in use
    content,          \* the text under analysis (file text, block text, dictionary text)
    arg,              \* the scalar input of the operation under analysis
    ret,              \* the value the last operation returned
    excluded_ranges,  \* PHPAnalyzer._excluded_ranges
    strings,          \* StringCollector.strings, in insertion order
    patterns          \* ExclusionMatcher.patterns

vars == <<pc, content, arg, ret, excluded_ranges, strings, patterns>>

\* ---------------------------------------------------------------- bounds

MaxLen == 4        \* characters of a text built character by character
MaxToks == 4       \* fragments of a text built fragment by fragment
MaxCalls == 3      \* calls made on one object

\* ------------------------------------------------------------ characters

NL == "\n"
SQ == "'"
DQ == "\""
BS == "\\"
KO == "U3053"      \* HIRAGANA LETTER KO
IDSP == "U3000"    \* IDEOGRAPHIC SPACE
BQ == "U0060"      \* GRAVE ACCENT

None == "None"     \* Python's None
Invalid == -1      \* the "invalid position" / "not found" value of the source

AsciiLower == {"a","b","c","d","e","f","g","h","i","j","k","l","m",
               "n","o","p","q","r","s","t","u","v","w","x","y","z"}
AsciiUpper == {"A","B","C","D","E","F","G","H","I","J","K","L","M",
               "N","O","P","Q","R","S","T","U","V","W","X","Y","Z"}
AsciiDigit == {"0","1","2","3","4","5","6","7","8","9"}

\* str.isspace / str.strip / the \s of re on str patterns
IsSpace(c) == c \in {" ", "\t", NL, "\r", "\f", IDSP}

\* str.isalnum
IsAlnum(c) == c \in AsciiLower \cup AsciiUpper \cup AsciiDigit \cup {KO}

\* the \w of re on str patterns
IsWord(c) == IsAlnum(c) \/ c = "_"

\* ord() of the characters the model writes
Ord(c) ==
    CASE c = "\t" -> 9   [] c = NL -> 10   [] c = "\f" -> 12  [] c = "\r" -> 13
      [] c = " " -> 32   [] c = "!" -> 33  [] c = DQ -> 34    [] c = "#" -> 35
      [] c = "$" -> 36   [] c = "%" -> 37  [] c = "&" -> 38   [] c = SQ -> 39
      [] c = "(" -> 40   [] c = ")" -> 41  [] c = "*" -> 42   [] c = "+" -> 43
      [] c = "," -> 44   [] c = "-" -> 45  [] c = "." -> 46   [] c = "/" -> 47
      [] c = ":" -> 58   [] c = ";" -> 59  [] c = "<" -> 60   [] c = "=" -> 61
      [] c = ">" -> 62   [] c = "?" -> 63  [] c = "@" -> 64   [] c = "[" -> 91
      [] c = BS -> 92    [] c = "]" -> 93  [] c = "^" -> 94   [] c = "_" -> 95
      [] c = BQ -> 96    [] c = "{" -> 123 [] c = "|" -> 124  [] c = "}" -> 125
      [] c = "~" -> 126
      [] c \in AsciiDigit -> 48 + (CHOOSE n \in 0..9 :
              c = <<"0","1","2","3","4","5","6","7","8","9">>[n + 1])
      [] c \in AsciiUpper -> 65 + (CHOOSE n \in 0..25 :
              c = <<"A","B","C","D","E","F","G","H","I","J","K","L","M",
                    "N","O","P","Q","R","S","T","U","V","W","X","Y","Z">>[n + 1])
      [] c \in AsciiLower -> 97 + (CHOOSE n \in 0..25 :
              c = <<"a","b","c","d","e","f","g","h","i","j","k","l","m",
                    "n","o","p","q","r","s","t","u","v","w","x","y","z">>[n + 1])
      [] c = KO -> 12371
      [] c = IDSP -> 12288

\* bytes of one character in str.encode("utf-8")
Utf8Bytes(c) ==
    LET o == Ord(c) IN
    IF o < 128 THEN 1 ELSE IF o < 2048 THEN 2 ELSE IF o < 65536 THEN 3 ELSE 4

\* ------------------------------------------------- Python str primitives

Min(S) == CHOOSE x \in S : \A y \in S : x <= y
Max(S) == CHOOSE x \in S : \A y \in S : x >= y

\* the least member of a set of offsets, or -1 when it has none
MinOrInvalid(S) == IF S = {} THEN Invalid ELSE Min(S)

\* s[i]
At(s, i) == s[i + 1]

\* s[a:b] for a, b >= 0
Slice(s, a, b) ==
    LET lo == IF a > Len(s) THEN Len(s) ELSE a
        hi == IF b > Len(s) THEN Len(s) ELSE b
    IN IF lo >= hi THEN <<>> ELSE SubSeq(s, lo + 1, hi)

\* s[a:]
SliceFrom(s, a) == Slice(s, a, Len(s))

\* s.startswith(p), s.endswith(p), s[i:i+len(p)] == p
StartsWith(s, p) == Len(p) <= Len(s) /\ SubSeq(s, 1, Len(p)) = p
EndsWith(s, p) == Len(p) <= Len(s) /\ SubSeq(s, Len(s) - Len(p) + 1, Len(s)) = p
HasAt(s, i, p) == i >= 0 /\ i + Len(p) <= Len(s) /\ SubSeq(s, i + 1, i + Len(p)) = p

\* s.find(sub, start): the lowest offset >= start where sub occurs, or -1
Find(s, sub, start) ==
    LET occ == {i \in start..(Len(s) - Len(sub)) : HasAt(s, i, sub)}
    IN IF occ = {} THEN Invalid ELSE Min(occ)

\* s.split("\n")
RECURSIVE SplitNL(_)
SplitNL(s) ==
    LET i == Find(s, <<NL>>, 0)
    IN IF i = Invalid THEN <<s>>
       ELSE <<Slice(s, 0, i)>> \o SplitNL(SliceFrom(s, i + 1))

\* len(s) - len(s.lstrip()) and len(s) - len(s.rstrip())
LeadingSpace(s) == Min({i \in 0..Len(s) : i = Len(s) \/ ~IsSpace(At(s, i))})
TrailingSpace(s) == Min({i \in 0..Len(s) : i = Len(s) \/ ~IsSpace(At(s, Len(s) - 1 - i))})

LStrip(s) == SliceFrom(s, LeadingSpace(s))
RStrip(s) == Slice(s, 0, Len(s) - TrailingSpace(s))
Strip(s) == RStrip(LStrip(s))

\* s.isspace(): non-empty and all whitespace
IsSpaceStr(s) == s # <<>> /\ \A i \in 1..Len(s) : IsSpace(s[i])

\* the concatenation of a sequence of texts
RECURSIVE Concat(_)
Concat(ss) == IF ss = <<>> THEN <<>> ELSE Head(ss) \o Concat(Tail(ss))

\* sum(f[i] for i in 1..n)
RECURSIVE SumTo(_, _)
SumTo(f, n) == IF n = 0 THEN 0 ELSE f[n] + SumTo(f, n - 1)

\* ------------------------------------------------------- Position Index

\* StringProcessor.get_line_column
get_line_column(text, pos) ==
    LET lines_before == SplitNL(Slice(text, 0, pos))
    IN <<Len(lines_before), Len(lines_before[Len(lines_before)])>>

\* StringProcessor.get_position_from_line_column
get_position_from_line_column(text, line, column) ==
    LET lines == SplitNL(text)
    IN IF line < 1 \/ line > Len(lines) THEN Invalid
       ELSE LET pos == SumTo([i \in 1..Len(lines) |-> Len(lines[i]) + 1], line - 1) + column
            IN IF pos >= Len(text) THEN Invalid ELSE pos

\* the state every specification starts from: nothing read, nothing collected
InitCommon ==
    /\ pc = "input"
    /\ content = <<>>
    /\ arg = 0
    /\ ret = <<>>
    /\ excluded_ranges = <<>>
    /\ strings = <<>>
    /\ patterns = <<>>

\* ====================================================================
\* SpecPos: the Position Index on every text over PosChars and every
\* offset of it
\* ====================================================================

PosChars == {"a", NL}

PosAppend(c) ==
    /\ pc = "input"
    /\ Len(content) < MaxLen
    /\ content' = Append(content, c)
    /\ UNCHANGED <<pc, arg, ret, excluded_ranges, strings, patterns>>

\* line, column = StringProcessor.get_line_column(text, o)
PosGetLineColumn(o) ==
    /\ pc = "input"
    /\ LET lc == get_line_column(content, o)
       IN ret' = [line |-> lc[1], column |-> lc[2]]
    /\ arg' = o
    /\ pc' = "line_column"
    /\ UNCHANGED <<content, excluded_ranges, strings, patterns>>

\* StringProcessor.get_position_from_line_column(text, line, column)
PosGetPosition ==
    /\ pc = "line_column"
    /\ ret' = [line |-> ret.line, column |-> ret.column,
               position |-> get_position_from_line_column(content, ret.line, ret.column)]
    /\ pc' = "position"
    /\ UNCHANGED <<content, arg, excluded_ranges, strings, patterns>>

NextPos ==
    \/ \E c \in PosChars : PosAppend(c)
    \/ \E o \in 0..Len(content) : PosGetLineColumn(o)
    \/ PosGetPosition

SpecPos == InitCommon /\ [][NextPos]_vars

\* C2: for every text and every offset o with 0 <= o <= len(text), the
\* position re-derived from get_line_column(text, o) is o, never the invalid
\* value, and offset 0 maps to line 1, column 0.
C2_PositionInverse ==
    /\ pc = "position" => (ret.position = arg /\ ret.position # Invalid)
    /\ (pc = "line_column" /\ arg = 0) => (ret.line = 1 /\ ret.column = 0)

\* ====================================================================
\* StringCollector (utils/string_processor.py)
\* ====================================================================

TextSave == <<"S", "a", "v", "e">>
TextOpen == <<"O", "p", "e", "n">>

\* Path.resolve(): the absolute, normalised path of a path as written
Resolve(file_path) ==
    CASE file_path = "a.php" -> "/w/a.php"
      [] file_path = "./a.php" -> "/w/a.php"
      [] file_path = "b.php" -> "/w/b.php"

\* StringOccurrence(line, column, length, context)
StringOccurrence(line, column, length) ==
    [line |-> line, column |-> column, length |-> length]

\* the index of the entry of key `text` in the dict self.strings, 0 if absent
IndexOfText(d, text) ==
    IF \E i \in 1..Len(d) : d[i].text = text
    THEN CHOOSE i \in 1..Len(d) : d[i].text = text
    ELSE 0

\* the index of the first file entry of `files` with file_entry[0] == path, 0 if none
IndexOfFile(files, path) ==
    IF \E j \in 1..Len(files) : files[j].file = path
    THEN Min({j \in 1..Len(files) : files[j].file = path})
    ELSE 0

\* add_string with the search for an existing file entry left out
add_string_no_file_search(d, text, file_path, line, column, length) ==
    LET absolute_path == Resolve(file_path)
        occurrence == StringOccurrence(line, column, length)
        d1 == IF IndexOfText(d, text) = 0
              THEN Append(d, [text |-> text, files |-> <<>>])
              ELSE d
        k == IndexOfText(d1, text)
    IN [d1 EXCEPT ![k].files =
            Append(@, [file |-> absolute_path, positions |-> <<occurrence>>])]

\* add_string that puts the occurrence in place of those of an existing file
\* entry instead of appending it
add_string_replace(d, text, file_path, line, column, length) ==
    LET absolute_path == Resolve(file_path)
        occurrence == StringOccurrence(line, column, length)
        d1 == IF IndexOfText(d, text) = 0
              THEN Append(d, [text |-> text, files |-> <<>>])
              ELSE d
        k == IndexOfText(d1, text)
        j == IndexOfFile(d1[k].files, absolute_path)
    IN IF j # 0
       THEN [d1 EXCEPT ![k].files[j].positions = <<occurrence>>]
       ELSE [d1 EXCEPT ![k].files =
                Append(@, [file |-> absolute_path, positions |-> <<occurrence>>])]

\* StringCollector.add_string: the value of self.strings after the call
add_string(d, text, file_path, line, column, length) ==
    LET absolute_path == Resolve(file_path)
        occurrence == StringOccurrence(line, column, length)
        d1 == IF IndexOfText(d, text) = 0
              THEN Append(d, [text |-> text, files |-> <<>>])
              ELSE d
        k == IndexOfText(d1, text)
        j == IndexOfFile(d1[k].files, absolute_path)
    IN IF j # 0
       THEN [d1 EXCEPT ![k].files[j].positions = Append(@, occurrence)]
       ELSE [d1 EXCEPT ![k].files =
                Append(@, [file |-> absolute_path, positions |-> <<occurrence>>])]

\* StringCollector.get_results
get_results(d) ==
    [i \in 1..Len(d) |->
        [text |-> d[i].text,
         occurrences |-> [j \in 1..Len(d[i].files) |->
             [file |-> d[i].files[j].file, positions |-> d[i].files[j].positions]]]]

\* StringCollector.get_string_count
get_string_count(d) == Len(d)

\* StringCollector.get_total_occurrences
get_total_occurrences(d) ==
    SumTo([i \in 1..Len(d) |->
              SumTo([j \in 1..Len(d[i].files) |-> Len(d[i].files[j].positions)],
                    Len(d[i].files))],
          Len(d))

\* --------------------------------------------------------------------
\* SpecCollector: any sequence of at most MaxCalls add_string calls on one
\* collector; arg is the log of the calls made
\* --------------------------------------------------------------------

CollectorTexts == {TextSave, TextOpen}
CollectorPaths == {"a.php", "./a.php", "b.php"}
CollectorLines == 1..2

InitCollector ==
    /\ pc = "collect"
    /\ content = <<>>
    /\ arg = <<>>
    /\ ret = <<>>
    /\ excluded_ranges = <<>>
    /\ strings = <<>>
    /\ patterns = <<>>

CollectorAddString(text, file_path, line) ==
    /\ pc = "collect"
    /\ Len(arg) < MaxCalls
    /\ strings' = add_string(strings, text, file_path, line, 0, Len(text))
    /\ arg' = Append(arg, [text |-> text, file_path |-> file_path, line |-> line])
    /\ UNCHANGED <<pc, content, ret, excluded_ranges, patterns>>

NextCollector ==
    \E text \in CollectorTexts, file_path \in CollectorPaths, line \in CollectorLines :
        CollectorAddString(text, file_path, line)

SpecCollector == InitCollector /\ [][NextCollector]_vars

\* C3: after any sequence of add_string calls, get_results() holds exactly
\* one entry per distinct text added and, inside an entry, exactly one
\* occurrence entry per distinct (resolved) file the text was added from;
\* "Save" added from two different files gives one entry with two
\* occurrence entries.
C3_OneEntryPerTextAndFile ==
    pc = "collect" =>
        LET results == get_results(strings)
            added == {arg[n].text : n \in 1..Len(arg)}
            addedFrom(t) == {Resolve(arg[n].file_path) : n \in {m \in 1..Len(arg) : arg[m].text = t}}
        IN /\ {results[i].text : i \in 1..Len(results)} = added
           /\ \A t \in added : Cardinality({i \in 1..Len(results) : results[i].text = t}) = 1
           /\ \A i \in 1..Len(results) :
                LET occ == results[i].occurrences
                IN /\ {occ[j].file : j \in 1..Len(occ)} = addedFrom(results[i].text)
                   /\ \A f \in addedFrom(results[i].text) :
                        Cardinality({j \in 1..Len(occ) : occ[j].file = f}) = 1

\* "Save" was added from two different files, and once more from one of them
C3_Witness ==
    /\ pc = "collect"
    /\ Len(arg) = 3
    /\ \A n \in 1..3 : arg[n].text = TextSave
    /\ {Resolve(arg[n].file_path) : n \in 1..3} = {"/w/a.php", "/w/b.php"}
    /\ Len(get_results(strings)) = 1
    /\ Len(get_results(strings)[1].occurrences) = 2

\* ====================================================================
\* The basic inclusion filter (should_extract_string, both variants)
\* ====================================================================

\* any(ord(char) > 127 for char in text)
contains_non_ascii(text) == \E i \in 1..Len(text) : Ord(text[i]) > 127

\* len(text.encode("utf-8"))
Utf8Len(text) == SumTo([i \in 1..Len(text) |-> Utf8Bytes(text[i])], Len(text))

\* re.match(r'^(\\[ntrfvabe\\"\'])+$', check_text)
EscapeLetters == {"n", "t", "r", "f", "v", "a", "b", "e", BS, DQ, SQ}
escape_only_pattern(check_text) ==
    LET body == IF check_text # <<>> /\ check_text[Len(check_text)] = NL
                THEN Slice(check_text, 0, Len(check_text) - 1)
                ELSE check_text
    IN /\ body # <<>>
       /\ Len(body) % 2 = 0
       /\ \A k \in 1..Len(body) :
            IF k % 2 = 1 THEN body[k] = BS ELSE body[k] \in EscapeLetters

\* regex_patterns: the prefixes that mark a regular expression
regex_patterns ==
    { <<"(", "?", ":">>, <<"(", "?", "=">>, <<"(", "?", "!">>, <<"(", "?", "<">>,
      <<BS, "d">>, <<BS, "w">>, <<BS, "s">>, <<BS, "b">>, <<"^", "[">>, <<"^", BS>> }

invalid_start_chars ==
    {"#", ",", "/", "$", ".", "!", ":", ";", ")", "]", "}", "%", "&", "@", "?", "^", "~", BQ}

\* the characters the final loop keeps: ASCII letters and everything outside ASCII
KeptChar(c) ==
    LET char_code == Ord(c)
    IN /\ ~(48 <= char_code /\ char_code <= 57)
       /\ c \notin {" ", "\t", "\r", NL}
       /\ (char_code < 128 =>
             ((65 <= char_code /\ char_code <= 90) \/ (97 <= char_code /\ char_code <= 122)))

\* the part of should_extract_string the two variants share, on the trimmed text
FilterTail(check_text) ==
    /\ \A p \in regex_patterns : ~StartsWith(check_text, p)
    /\ check_text[1] \notin invalid_start_chars
    /\ \E i \in 1..Len(check_text) : KeptChar(check_text[i])

\* should_extract_string with the minimum length applied to every text
should_extract_string_length_always(text, min_bytes) ==
    IF text = <<>> \/ Strip(text) = <<>> THEN FALSE
    ELSE LET check_text == Strip(text)
         IN IF escape_only_pattern(check_text) THEN FALSE
            ELSE IF Utf8Len(check_text) < min_bytes THEN FALSE
            ELSE FilterTail(check_text)

\* StringProcessor.should_extract_string
should_extract_string(text, min_bytes) ==
    IF text = <<>> \/ Strip(text) = <<>> THEN FALSE
    ELSE LET check_text == Strip(text)
             has_non_ascii == contains_non_ascii(check_text)
         IN IF escape_only_pattern(check_text) THEN FALSE
            ELSE IF ~has_non_ascii /\ Utf8Len(check_text) < min_bytes THEN FALSE
            ELSE FilterTail(check_text)

\* string_validator.should_extract_string
validator_should_extract_string(text, min_bytes) ==
    IF text = <<>> \/ Strip(text) = <<>> THEN FALSE
    ELSE LET check_text == Strip(text)
             has_non_ascii == contains_non_ascii(check_text)
         IN IF ~has_non_ascii /\ Utf8Len(check_text) < min_bytes THEN FALSE
            ELSE FilterTail(check_text)

\* --------------------------------------------------------------------
\* SpecFilter: StringProcessor.should_extract_string on every text over
\* FilterChars and every min_bytes of MinBytesValues
\* --------------------------------------------------------------------

FilterChars == {"H", "i", KO, IDSP, " ", BS}
MinBytesValues == {1, 2, 4}

FilterAppend(c) ==
    /\ pc = "input"
    /\ Len(content) < MaxLen
    /\ content' = Append(content, c)
    /\ UNCHANGED <<pc, arg, ret, excluded_ranges, strings, patterns>>

FilterCall(min_bytes) ==
    /\ pc = "input"
    /\ arg' = min_bytes
    /\ ret' = [accepted |-> should_extract_string(content, min_bytes)]
    /\ pc' = "filtered"
    /\ UNCHANGED <<content, excluded_ranges, strings, patterns>>

NextFilter ==
    \/ \E c \in FilterChars : FilterAppend(c)
    \/ \E min_bytes \in MinBytesValues : FilterCall(min_bytes)

SpecFilter == InitCommon /\ [][NextFilter]_vars

\* the verdict does not depend on min_bytes
LengthBlind(text, accepted) ==
    \A m \in MinBytesValues : should_extract_string(text, m) = accepted

RECURSIVE ClassHas(_, _)
ClassHas(members, c) ==
    IF members = <<>> THEN FALSE
    ELSE IF Len(members) >= 3 /\ members[2] = "-"
    THEN (Ord(members[1]) <= Ord(c) /\ Ord(c) <= Ord(members[3]))
         \/ ClassHas(SliceFrom(members, 3), c)
    ELSE members[1] = c \/ ClassHas(Tail(members), c)

\* a range of the class runs backwards: re.error "bad character range"
RECURSIVE ClassBadRange(_)
ClassBadRange(members) ==
    IF members = <<>> THEN FALSE
    ELSE IF Len(members) >= 3 /\ members[2] = "-"
    THEN Ord(members[1]) > Ord(members[3]) \/ ClassBadRange(SliceFrom(members, 3))
    ELSE ClassBadRange(Tail(members))

\* the offset of the ] that ends the class whose members start at `first`:
\* a ] right after the opening is a member, and so is an escaped one
RECURSIVE ClassClose(_, _, _)
ClassClose(re, k, first) ==
    IF k >= Len(re) THEN Invalid
    ELSE IF At(re, k) = BS THEN ClassClose(re, k + 2, first)
    ELSE IF At(re, k) = "]" /\ k > first THEN k
    ELSE ClassClose(re, k + 1, first)

\* the atom a backslash escape stands for: \s \w \d and their negations are
\* character sets, \b is the zero-width word boundary, \n \t \r \f are
\* control characters, and any other escaped character stands for itself
EscapeAtom(e) ==
    CASE e \in {"s", "S"} -> [error |-> FALSE, n |-> 2, kind |-> "space", chars |-> <<>>, neg |-> e = "S"]
      [] e \in {"w", "W"} -> [error |-> FALSE, n |-> 2, kind |-> "word", chars |-> <<>>, neg |-> e = "W"]
      [] e \in {"d", "D"} -> [error |-> FALSE, n |-> 2, kind |-> "digit", chars |-> <<>>, neg |-> e = "D"]
      [] e = "b" -> [error |-> FALSE, n |-> 2, kind |-> "wordb", chars |-> <<>>, neg |-> FALSE]
      [] e = "n" -> [error |-> FALSE, n |-> 2, kind |-> "lit", chars |-> <<NL>>, neg |-> FALSE]
      [] e = "t" -> [error |-> FALSE, n |-> 2, kind |-> "lit", chars |-> <<"\t">>, neg |-> FALSE]
      [] e = "r" -> [error |-> FALSE, n |-> 2, kind |-> "lit", chars |-> <<"\r">>, neg |-> FALSE]
      [] e = "f" -> [error |-> FALSE, n |-> 2, kind |-> "lit", chars |-> <<"\f">>, neg |-> FALSE]
      [] OTHER -> [error |-> FALSE, n |-> 2, kind |-> "lit", chars |-> <<e>>, neg |-> FALSE]

\* the atom that starts at offset i of the expression: its kind, its length
\* in the expression, and whether the expression is in error there.  The
\* expressions the model compiles are made of literals, escapes, classes,
\* ".", "^", "$" and the repeats "*" and "+".
ReAtom(re, i) ==
    LET c == At(re, i)
    IN CASE c = BS ->
              IF i + 1 < Len(re)
              THEN EscapeAtom(At(re, i + 1))
              ELSE [error |-> TRUE, n |-> 1, kind |-> "lit", chars |-> <<>>, neg |-> FALSE]
         [] c = "." -> [error |-> FALSE, n |-> 1, kind |-> "dot", chars |-> <<>>, neg |-> FALSE]
         [] c = "^" -> [error |-> FALSE, n |-> 1, kind |-> "bol", chars |-> <<>>, neg |-> FALSE]
         [] c = "$" -> [error |-> FALSE, n |-> 1, kind |-> "eol", chars |-> <<>>, neg |-> FALSE]
         [] c \in {"*", "+"} -> [error |-> TRUE, n |-> 1, kind |-> "lit", chars |-> <<>>, neg |-> FALSE]
         [] c = "[" ->
              LET neg == HasAt(re, i + 1, <<"^">>)
                  first == IF neg THEN i + 2 ELSE i + 1
                  \* a ] right after the opening is a member, not the end
                  close == ClassClose(re, first, first)
              IN IF close = Invalid
                 THEN [error |-> TRUE, n |-> 1, kind |-> "class", chars |-> <<>>, neg |-> neg]
                 ELSE [error |-> ClassBadRange(Slice(re, first, close)), n |-> close + 1 - i,
                       kind |-> "class", chars |-> Slice(re, first, close), neg |-> neg]
         [] OTHER -> [error |-> FALSE, n |-> 1, kind |-> "lit", chars |-> <<c>>, neg |-> FALSE]

\* re.compile: the items of the expression from offset i on, or an error;
\* x+ is compiled as x followed by x*
RECURSIVE ReParse(_, _)

\* the items of the expression from the atom a at offset i on
ReParseAtom(re, i, a) ==
    LET star == HasAt(re, i + a.n, <<"*">>)
        plus == HasAt(re, i + a.n, <<"+">>)
        next == i + a.n + (IF star \/ plus THEN 1 ELSE 0)
        \* "multiple repeat", or a repeat of a zero-width item
        bad == a.error \/ ((star \/ plus) /\ (HasAt(re, next, <<"*">>) \/ HasAt(re, next, <<"+">>)
                                               \/ a.kind \in {"bol", "eol"}))
        one == [kind |-> a.kind, chars |-> a.chars, neg |-> a.neg, star |-> FALSE]
        many == [kind |-> a.kind, chars |-> a.chars, neg |-> a.neg, star |-> TRUE]
    IN IF bad THEN [error |-> TRUE, items |-> <<>>]
       ELSE LET rest == ReParse(re, next)
            IN [error |-> rest.error,
                items |-> (IF plus THEN <<one, many>> ELSE IF star THEN <<many>> ELSE <<one>>)
                          \o rest.items]

ReParse(re, i) ==
    IF i >= Len(re) THEN [error |-> FALSE, items |-> <<>>]
    ELSE ReParseAtom(re, i, ReAtom(re, i))

\* one item of an expression accepts the character c
ReAccepts(item, c) ==
    CASE item.kind = "lit" -> item.chars = <<c>>
      [] item.kind = "dot" -> c # NL
      [] item.kind = "class" -> (ClassHas(item.chars, c) # item.neg)
      [] item.kind = "space" -> (IsSpace(c) # item.neg)
      [] item.kind = "word" -> (IsWord(c) # item.neg)
      [] item.kind = "digit" -> ((c \in AsciiDigit) # item.neg)
      [] OTHER -> FALSE

\* \b at offset i of the text: a word character on exactly one side
WordBoundary(text, i) ==
    (i > 0 /\ IsWord(At(text, i - 1))) # (i < Len(text) /\ IsWord(At(text, i)))

\* the end of the match of items k.. that starts at offset i of the text, as
\* the backtracking matcher of re finds it (a repeat takes as much as it
\* can first), or -1 when there is none
RECURSIVE ReMatchEnd(_, _, _, _)
ReMatchEnd(items, k, text, i) ==
    IF k > Len(items) THEN i
    ELSE LET item == items[k]
         IN CASE item.kind = "bol" ->
                    IF i = 0 THEN ReMatchEnd(items, k + 1, text, i) ELSE Invalid
              [] item.kind = "eol" ->
                    IF i = Len(text) \/ (i = Len(text) - 1 /\ At(text, i) = NL)
                    THEN ReMatchEnd(items, k + 1, text, i) ELSE Invalid
              [] item.kind = "wordb" ->
                    IF WordBoundary(text, i) THEN ReMatchEnd(items, k + 1, text, i) ELSE Invalid
              [] OTHER ->
                    LET takes == i < Len(text) /\ ReAccepts(item, At(text, i))
                    IN IF item.star
                       THEN LET more == IF takes THEN ReMatchEnd(items, k, text, i + 1) ELSE Invalid
                            IN IF more # Invalid THEN more ELSE ReMatchEnd(items, k + 1, text, i)
                       ELSE IF takes THEN ReMatchEnd(items, k + 1, text, i + 1) ELSE Invalid

\* re.match: items k.. match the text from offset i on (anchored at i only)
ReMatchFrom(items, k, text, i) == ReMatchEnd(items, k, text, i) # Invalid

\* re.match(regex, text) where compiling the expression gave r: re.error is
\* raised for an expression in error, and leaves the caller when it does
\* not catch it
ReMatchCompiled(r, text, uncaught) ==
    [raised |-> uncaught /\ r.error, value |-> ~r.error /\ ReMatchFrom(r.items, 1, text, 0)]

\* re.search: the expression matches somewhere in the text
ReSearch(items, text) == \E i \in 0..Len(text) : ReMatchFrom(items, 1, text, i)

\* re.finditer from offset pos on: the matches, leftmost first, not
\* overlapping
RECURSIVE ReFindIter(_, _, _)

\* the match m, then the matches after it: the scan resumes at its end,
\* one further when the match is empty
ReFindIterAfter(items, text, m) ==
    <<m>> \o ReFindIter(items, text, IF m.end = m.start THEN m.end + 1 ELSE m.end)

\* the matches from the leftmost one on, which starts at offset s (-1: none)
ReFindIterAt(items, text, s) ==
    IF s = Invalid THEN <<>>
    ELSE ReFindIterAfter(items, text, [start |-> s, end |-> ReMatchEnd(items, 1, text, s)])

ReFindIter(items, text, pos) ==
    ReFindIterAt(items, text, MinOrInvalid({i \in pos..Len(text) : ReMatchFrom(items, 1, text, i)}))

\* re.escape of one character
ReSpecialChars ==
    {"(", ")", "[", "]", "{", "}", "?", "*", "+", "-", "|", "^", "$", BS, ".", "&", "~",
     "#", " ", "\t", NL, "\r", "\f"}
ReEscape(c) == IF c \in ReSpecialChars THEN <<BS, c>> ELSE <<c>>

RegexPrefix == <<"r", "e", "g", "e", "x", ":">>

\* the glob-to-expression loop of _matches, from offset i of the pattern on
RECURSIVE GlobToRegex(_, _)
GlobToRegex(pattern, i) ==
    IF i >= Len(pattern) THEN <<>>
    ELSE LET char == At(pattern, i)
         IN IF char = "*" THEN <<".", "*">> \o GlobToRegex(pattern, i + 1)
            ELSE IF char = "["
            THEN LET j == Find(pattern, <<"]">>, i + 1)
                 IN IF j # Invalid
                    THEN Slice(pattern, i, j + 1) \o GlobToRegex(pattern, j + 1)
                    ELSE ReEscape(char) \o GlobToRegex(pattern, i + 1)
            ELSE ReEscape(char) \o GlobToRegex(pattern, i + 1)

\* ExclusionMatcher._matches: the value returned, or raised = TRUE when
\* re.error leaves the method
matches(text, pattern) ==
    IF StartsWith(pattern, RegexPrefix)
    THEN ReMatchCompiled(ReParse(SliceFrom(pattern, 6), 0), text, FALSE)
    ELSE ReMatchCompiled(ReParse(<<"^">> \o GlobToRegex(pattern, 0) \o <<"$">>, 0), text, TRUE)

\* the loop of append_from_file over the lines of the file, from line k on
RECURSIVE AppendLines(_, _, _)
AppendLines(pats, lines, k) ==
    IF k > Len(lines) THEN pats
    ELSE LET line == Strip(lines[k])
         IN IF line = <<>> THEN AppendLines(pats, lines, k + 1)
            ELSE IF StartsWith(line, <<"#">>) THEN AppendLines(pats, lines, k + 1)
            ELSE IF StartsWith(line, <<"!">>)
            THEN LET pattern == Strip(SliceFrom(line, 1))
                 IN IF pattern # <<>>
                    THEN AppendLines(Append(pats, [pattern |-> pattern, negation |-> TRUE]), lines, k + 1)
                    ELSE AppendLines(pats, lines, k + 1)
            ELSE AppendLines(Append(pats, [pattern |-> line, negation |-> FALSE]), lines, k + 1)

\* ExclusionMatcher.append_from_file on a file that exists and holds file_text
append_from_file(pats, file_text) == AppendLines(pats, SplitNL(file_text), 1)

\* should_exclude where a negated match does not undo an exclusion
RECURSIVE should_exclude_sticky(_, _, _, _)
should_exclude_sticky(pats, text, k, excluded) ==
    IF k > Len(pats) THEN [raised |-> FALSE, excluded |-> excluded]
    ELSE LET m == matches(text, pats[k].pattern)
         IN IF m.raised THEN [raised |-> TRUE, excluded |-> FALSE]
            ELSE should_exclude_sticky(pats, text, k + 1, excluded \/ (m.value /\ ~pats[k].negation))

\* ExclusionMatcher.should_exclude: the loop from pattern k on
RECURSIVE should_exclude(_, _, _, _)
should_exclude(pats, text, k, excluded) ==
    IF k > Len(pats) THEN [raised |-> FALSE, excluded |-> excluded]
    ELSE LET m == matches(text, pats[k].pattern)
         IN IF m.raised THEN [raised |-> TRUE, excluded |-> FALSE]
            ELSE should_exclude(pats, text, k + 1,
                                IF m.value THEN ~pats[k].negation ELSE excluded)

\* --------------------------------------------------------------------
\* SpecMatcher: a dictionary file of at most MaxLines lines drawn from
\* DictLines is loaded, then should_exclude is asked about a text
\* --------------------------------------------------------------------

MaxLines == 3

LineGlob == <<"b", "t", "n", "-", "*">>
LineNegated == <<"!", "b", "t", "n", "-", "i", "m", "p", "o", "r", "t", "a", "n", "t">>
LineComment == <<"#", " ", "x">>
LinePadded == <<" ", "b", "t", "n", "-", "p", "r", "i", "m", "a", "r", "y", " ">>
LineBareNegation == <<"!", " ">>
LineStar == <<"*">>
LineClass == <<"b", "t", "n", "-", "[", "i", "p", "]", "*">>
LineRegex == <<"r", "e", "g", "e", "x", ":", "^", "b", "t", "n">>

DictLines ==
    {LineGlob, LineNegated, LineComment, LinePadded, LineBareNegation, LineStar,
     LineClass, LineRegex, <<>>}

TextBtnPrimary == <<"b", "t", "n", "-", "p", "r", "i", "m", "a", "r", "y">>
TextBtnImportant == <<"b", "t", "n", "-", "i", "m", "p", "o", "r", "t", "a", "n", "t">>
TextPrimary == <<"p", "r", "i", "m", "a", "r", "y">>

MatcherTexts == {TextBtnPrimary, TextBtnImportant, TextPrimary}

\* the number of lines written to the file so far
LinesWritten(file_text) == Len(SplitNL(file_text)) - 1

MatcherWriteLine(line) ==
    /\ pc = "input"
    /\ LinesWritten(content) < MaxLines
    /\ content' = content \o line \o <<NL>>
    /\ UNCHANGED <<pc, arg, ret, excluded_ranges, strings, patterns>>

\* ExclusionMatcher().append_from_file(file)
MatcherAppendFromFile ==
    /\ pc = "input"
    /\ patterns' = append_from_file(patterns, content)
    /\ pc' = "loaded"
    /\ UNCHANGED <<content, arg, ret, excluded_ranges, strings>>

\* exclude_matcher.should_exclude(text)
MatcherShouldExclude(text) ==
    /\ pc = "loaded"
    /\ arg' = text
    /\ ret' = should_exclude(patterns, text, 1, FALSE)
    /\ pc' = "asked"
    /\ UNCHANGED <<content, excluded_ranges, strings, patterns>>

NextMatcher ==
    \/ \E line \in DictLines : MatcherWriteLine(line)
    \/ MatcherAppendFromFile
    \/ \E text \in MatcherTexts : MatcherShouldExclude(text)

SpecMatcher == InitCommon /\ [][NextMatcher]_vars

\* the loaded patterns that match the text, by their place in load order
MatchingPatterns(pats, text) == {k \in 1..Len(pats) : matches(text, pats[k].pattern).value}

\* C8: should_exclude(text) is true if and only if at least one loaded
\* pattern matches text and the last matching pattern in load order is not
\* negated; with the patterns "btn-*", "!btn-important" in that order,
\* "btn-primary" is excluded and "btn-important" is included, and a text no
\* pattern matches is included.
C8_LastMatchWins ==
    pc = "asked" =>
        LET hits == MatchingPatterns(patterns, arg)
        IN /\ ~ret.raised
           /\ ret.excluded = (hits # {} /\ ~patterns[Max(hits)].negation)
           /\ hits = {} => ~ret.excluded
           /\ patterns = <<[pattern |-> LineGlob, negation |-> FALSE],
                           [pattern |-> SliceFrom(LineNegated, 1), negation |-> TRUE]>> =>
                /\ arg = TextBtnPrimary => ret.excluded
                /\ arg = TextBtnImportant => ~ret.excluded

\* "btn-*" then "!btn-important" were loaded and "btn-important", which both
\* match, has been found included
C8_Witness ==
    /\ pc = "asked"
    /\ content = LineGlob \o <<NL>> \o LineNegated \o <<NL>>
    /\ Len(patterns) = 2
    /\ arg = TextBtnImportant
    /\ MatchingPatterns(patterns, arg) = {1, 2}
    /\ ~ret.excluded

\* --------------------------------------------------------------------
\* SpecMatcherInvalid: as SpecMatcher, with the dictionary lines drawn from
\* InvalidDictLines: patterns that are not valid expressions, next to one
\* that is
\* --------------------------------------------------------------------

LineReversedRange == <<"[", "z", "-", "a", "]">>
LineEmptyClass == <<"[", "]">>
LineUnclosedClass == <<"[", "a">>
LineRegexUnclosedClass == <<"r", "e", "g", "e", "x", ":", "[">>
LineRegexReversedRange == <<"r", "e", "g", "e", "x", ":", "[", "z", "-", "a", "]">>

InvalidDictLines ==
    {LineReversedRange, LineEmptyClass, LineUnclosedClass, LineRegexUnclosedClass,
     LineRegexReversedRange, LineStar}

InvalidMatcherTexts == {<<"a">>, <<"[", "a">>, <<>>}

NextMatcherInvalid ==
    \/ \E line \in InvalidDictLines : MatcherWriteLine(line)
    \/ MatcherAppendFromFile
    \/ \E text \in InvalidMatcherTexts : MatcherShouldExclude(text)

SpecMatcherInvalid == InitCommon /\ [][NextMatcherInvalid]_vars

\* the pattern is not a valid expression: compiling what _matches builds from
\* it ends in re.error
InvalidPattern(pattern) ==
    IF StartsWith(pattern, RegexPrefix)
    THEN ReParse(SliceFrom(pattern, 6), 0).error
    ELSE ReParse(<<"^">> \o GlobToRegex(pattern, 0) \o <<"$">>, 0).error

\* C14: for every pattern line, valid or not, and every text, _matches and
\* should_exclude return a boolean without raising, and a pattern that is not
\* a valid expression matches no text.
C14_InvalidPatternNeverMatches ==
    pc = "asked" =>
        /\ ~ret.raised
        /\ \A k \in 1..Len(patterns) :
              /\ ~matches(arg, patterns[k].pattern).raised
              /\ InvalidPattern(patterns[k].pattern) => ~matches(arg, patterns[k].pattern).value

\* ====================================================================
\* PHPAnalyzer: the scanners
\* ====================================================================

\* the lowest offset from i on that holds one of the characters, or the end
\* of the text: where a scanner arrives by the steps that only advance i
NextAt(text, i, chars) == Min({j \in i..Len(text) : j = Len(text) \/ At(text, j) \in chars})

\* a scanner for which "#" does not start a comment
SkipCommentNoHash(text, i) ==
    IF HasAt(text, i, <<"/", "*">>)
    THEN LET end == Find(text, <<"*", "/">>, i + 2)
         IN [found |-> TRUE, next |-> IF end # Invalid THEN end + 2 ELSE Invalid]
    ELSE IF HasAt(text, i, <<"/", "/">>)
    THEN LET end == Find(text, <<NL>>, i + 2)
         IN [found |-> TRUE, next |-> IF end # Invalid THEN end + 1 ELSE Invalid]
    ELSE [found |-> FALSE, next |-> i]

\* an inner loop for which a backslash does not escape the character after it
SkipStringNoEscape(text, from, quote) ==
    IF NextAt(text, from, {quote}) >= Len(text)
    THEN [closed |-> FALSE, next |-> Len(text)]
    ELSE [closed |-> TRUE, next |-> NextAt(text, from, {quote}) + 1]

\* the "skip a comment" steps every scanner starts with, at offset i:
\* whether a comment starts there, and the offset scanning resumes at, -1
\* when the comment is not closed
SkipComment(text, i) ==
    IF HasAt(text, i, <<"/", "*">>)
    THEN LET end == Find(text, <<"*", "/">>, i + 2)
         IN [found |-> TRUE, next |-> IF end # Invalid THEN end + 2 ELSE Invalid]
    ELSE IF HasAt(text, i, <<"/", "/">>)
    THEN LET end == Find(text, <<NL>>, i + 2)
         IN [found |-> TRUE, next |-> IF end # Invalid THEN end + 1 ELSE Invalid]
    ELSE IF At(text, i) = "#"
    THEN LET end == Find(text, <<NL>>, i + 1)
         IN [found |-> TRUE, next |-> IF end # Invalid THEN end + 1 ELSE Invalid]
    ELSE [found |-> FALSE, next |-> i]

\* the inner loop over a quoted string, entered at offset i just after the
\* opening quote: whether the closing quote was found, and the offset the
\* loop leaves at (just after the closing quote, or the end of the text)
RECURSIVE SkipString(_, _, _)
SkipString(text, from, quote) ==
    LET i == NextAt(text, from, {BS, quote})
    IN IF i >= Len(text) THEN [closed |-> FALSE, next |-> i]
       ELSE IF At(text, i) = BS /\ i + 1 < Len(text) THEN SkipString(text, i + 2, quote)
       ELSE IF At(text, i) = quote THEN [closed |-> TRUE, next |-> i + 1]
       ELSE SkipString(text, i + 1, quote)

\* PHPAnalyzer.extract_string_literals: the loop from offset `from` on
RECURSIVE extract_string_literals(_, _)
extract_string_literals(text, from) ==
    LET i == NextAt(text, from, {"/", "#", SQ, DQ})
    IN
    IF i >= Len(text) THEN <<>>
    ELSE LET c == SkipComment(text, i)
         IN IF c.found
            THEN IF c.next = Invalid THEN <<>> ELSE extract_string_literals(text, c.next)
            ELSE IF At(text, i) \in {SQ, DQ}
            THEN LET s == SkipString(text, i + 1, At(text, i))
                     string_content == Slice(text, i + 1, s.next - 1)
                     lc == get_line_column(text, i + 1)
                 IN IF ~s.closed THEN <<>>
                    ELSE (IF string_content # <<>> /\ ~IsSpaceStr(string_content)
                          THEN <<[text |-> string_content, line |-> lc[1], column |-> lc[2],
                                  length |-> Len(string_content)]>>
                          ELSE <<>>)
                         \o extract_string_literals(text, s.next)
            ELSE extract_string_literals(text, i + 1)

\* the depth-counting loop of _find_matching_parenthesis and
\* _find_matching_brace, from offset `from` on at the given depth
RECURSIVE FindMatching(_, _, _, _, _)
FindMatching(text, from, depth, open, close) ==
    LET i == NextAt(text, from, {"/", "#", SQ, DQ, open, close})
    IN
    IF i >= Len(text) THEN Invalid
    ELSE LET c == SkipComment(text, i)
             char == At(text, i)
         IN IF c.found
            THEN IF c.next = Invalid THEN Invalid
                 ELSE FindMatching(text, c.next, depth, open, close)
            ELSE IF char \in {SQ, DQ}
            THEN FindMatching(text, SkipString(text, i + 1, char).next, depth, open, close)
            ELSE IF char = open THEN FindMatching(text, i + 1, depth + 1, open, close)
            ELSE IF char = close
            THEN IF depth = 1 THEN i ELSE FindMatching(text, i + 1, depth - 1, open, close)
            ELSE FindMatching(text, i + 1, depth, open, close)

\* PHPAnalyzer._find_matching_parenthesis
find_matching_parenthesis(text, open_paren_pos) ==
    IF open_paren_pos >= Len(text) \/ At(text, open_paren_pos) # "(" THEN Invalid
    ELSE FindMatching(text, open_paren_pos + 1, 1, "(", ")")

\* PHPAnalyzer._find_matching_brace
find_matching_brace(text, open_brace_pos) ==
    IF open_brace_pos >= Len(text) \/ At(text, open_brace_pos) # "{" THEN Invalid
    ELSE FindMatching(text, open_brace_pos + 1, 1, "{", "}")

\* ====================================================================
\* PHPAnalyzer: the call-site denylist
\*
\* The lists below are the entries of the source's lists that can match a
\* text written with the fragments and examples of this model; an entry
\* left out matches nowhere in such a text.
\* ====================================================================

EXCLUDED_FUNCTIONS ==
    <<<<"_", "_">>, <<"r", "e", "g", "e", "x", ":", "\\", "b", "e", "c", "h", "o", "\\", "s", "+">>, <<"L", "o", "g", ":", ":", "e", "r", "r", "o", "r">>>>

CLASS_INSTANCE_METHODS == <<<<"e", "r", "r", "o", "r">>>>

EXCLUDED_FUNCTION_DEFINITIONS ==
    <<[access_level |-> <<"p", "u", "b", "l", "i", "c">>, func_name |-> <<"r", "u", "l", "e", "s">>, return_type |-> <<"a", "r", "r", "a", "y">>]>>

REGEX_FUNCTIONS == <<>>

PHP_BUILTIN_FUNCTIONS == <<>>

LARAVEL_HELPER_FUNCTIONS == <<<<"e">>, <<"_", "_">>>>

\* PHPAnalyzer.__init__: the default of min_bytes
DefaultMinBytes == 2

\* re.escape of a text
RECURSIVE ReEscapeAll(_)
ReEscapeAll(s) == IF s = <<>> THEN <<>> ELSE ReEscape(Head(s)) \o ReEscapeAll(Tail(s))

\* the expression of one EXCLUDED_FUNCTIONS entry
FunctionPattern(func) ==
    IF StartsWith(func, RegexPrefix) THEN SliceFrom(func, 6)
    ELSE IF Find(func, <<":", ":">>, 0) # Invalid THEN ReEscapeAll(func) \o <<BS, "s", "*", BS, "(">>
    ELSE IF StartsWith(func, <<"@">>) THEN ReEscapeAll(func) \o <<BS, "s", "*", BS, "(">>
    ELSE <<BS, "b">> \o ReEscapeAll(func) \o <<BS, "s", "*", BS, "(">>

\* the three expressions of one CLASS_INSTANCE_METHODS entry
MethodPatterns(method) ==
    <<<<BS, "$", "t", "h", "i", "s", "-", ">">> \o ReEscapeAll(method) \o <<BS, "s", "*", BS, "(">>,
      <<"-", ">">> \o ReEscapeAll(method) \o <<BS, "s", "*", BS, "(">>,
      <<":", ":">> \o ReEscapeAll(method) \o <<BS, "s", "*", BS, "(">>>>

\* the expression of one entry of the plain function-name lists
WordPattern(func) == <<BS, "b">> \o ReEscapeAll(func) \o <<BS, "s", "*", BS, "(">>

\* PHPAnalyzer._get_exclusion_patterns
get_exclusion_patterns ==
    [k \in 1..Len(EXCLUDED_FUNCTIONS) |-> FunctionPattern(EXCLUDED_FUNCTIONS[k])]
    \o Concat([k \in 1..Len(CLASS_INSTANCE_METHODS) |-> MethodPatterns(CLASS_INSTANCE_METHODS[k])])
    \o [k \in 1..Len(REGEX_FUNCTIONS) |-> WordPattern(REGEX_FUNCTIONS[k])]
    \o [k \in 1..Len(PHP_BUILTIN_FUNCTIONS) |-> WordPattern(PHP_BUILTIN_FUNCTIONS[k])]
    \o [k \in 1..Len(LARAVEL_HELPER_FUNCTIONS) |-> WordPattern(LARAVEL_HELPER_FUNCTIONS[k])]

\* the patterns as re compiles them
CompiledPatterns ==
    [k \in 1..Len(get_exclusion_patterns) |-> ReParse(get_exclusion_patterns[k], 0).items]

\* the expression the definitions loop builds for one entry
DefinitionPattern(d) ==
    ReEscapeAll(d.access_level) \o <<BS, "s", "+">> \o <<"f", "u", "n", "c", "t", "i", "o", "n">> \o <<BS, "s", "+", BS, "b">>
    \o ReEscapeAll(d.func_name) \o <<BS, "b", BS, "s", "*", BS, "(", BS, "s", "*", BS, ")",
                                     BS, "s", "*", ":", BS, "s", "*">>
    \o ReEscapeAll(d.return_type)

CompiledDefinitions ==
    [k \in 1..Len(EXCLUDED_FUNCTION_DEFINITIONS) |->
        ReParse(DefinitionPattern(EXCLUDED_FUNCTION_DEFINITIONS[k]), 0).items]

\* the body of the finditer loop of _identify_excluded_function_ranges over
\* the matches ms of one pattern, from match k on
RECURSIVE CallRanges(_, _, _)
CallRanges(text, ms, k) ==
    IF k > Len(ms) THEN <<>>
    ELSE LET paren_pos == ms[k].end - 1
             close_paren == find_matching_parenthesis(text, paren_pos)
         IN (IF paren_pos >= Len(text) \/ At(text, paren_pos) # "(" THEN <<>>
             ELSE IF close_paren > paren_pos
             THEN <<[start |-> ms[k].start, end |-> close_paren + 1]>>
             ELSE <<>>)
            \o CallRanges(text, ms, k + 1)

\* _identify_excluded_function_ranges where the list is not emptied first
identify_excluded_function_ranges_keeping(ranges, text) ==
    ranges \o Concat([k \in 1..Len(CompiledPatterns) |->
                        CallRanges(text, ReFindIter(CompiledPatterns[k], text, 0), 1)])

\* PHPAnalyzer._identify_excluded_function_ranges: the value of
\* self._excluded_ranges it leaves, given the value it finds
identify_excluded_function_ranges(ranges, text) ==
    Concat([k \in 1..Len(CompiledPatterns) |->
              CallRanges(text, ReFindIter(CompiledPatterns[k], text, 0), 1)])

\* how far past a matched signature the opening brace is looked for, and how
\* far past a literal the arrow is looked for
BraceLookahead == 100
ArrowLookahead == 100

\* the search for the opening brace of a matched definition
BraceStart(text, brace_search_start) ==
    LET stop == {i \in brace_search_start..(Min({brace_search_start + BraceLookahead, Len(text)}) - 1) :
                    At(text, i) \in {"{", ";"}}
    IN IF stop = {} THEN Invalid
       ELSE IF At(text, Min(stop)) = "{" THEN Min(stop) ELSE Invalid

\* the body of the finditer loop of _identify_excluded_function_definitions
RECURSIVE DefinitionRanges(_, _, _)
DefinitionRanges(text, ms, k) ==
    IF k > Len(ms) THEN <<>>
    ELSE LET brace_start == BraceStart(text, ms[k].end)
             brace_end == find_matching_brace(text, brace_start)
         IN (IF brace_start # Invalid /\ brace_end > brace_start
             THEN <<[start |-> ms[k].start, end |-> brace_end + 1]>>
             ELSE <<>>)
            \o DefinitionRanges(text, ms, k + 1)

\* PHPAnalyzer._identify_excluded_function_definitions
identify_excluded_function_definitions(ranges, text) ==
    ranges \o Concat([k \in 1..Len(CompiledDefinitions) |->
                        DefinitionRanges(text, ReFindIter(CompiledDefinitions[k], text, 0), 1)])

\* _is_in_excluded_function_range where no range excludes anything
is_in_excluded_function_range_never(ranges, position) == FALSE

\* PHPAnalyzer._is_in_excluded_function_range
is_in_excluded_function_range(ranges, position) ==
    /\ position # Invalid
    /\ \E k \in 1..Len(ranges) : ranges[k].start <= position /\ position < ranges[k].end

\* ====================================================================
\* PHPAnalyzer: validation of one literal
\* ====================================================================

\* PHPAnalyzer._is_excluded_by_function_pattern
is_excluded_by_function_pattern(before_string) ==
    \E k \in 1..Len(CompiledPatterns) : ReSearch(CompiledPatterns[k], before_string)

\* PHPAnalyzer._is_array_key
is_array_key(before_string, after_string, text, position, text_length) ==
    LET before_string_stripped == RStrip(before_string)
        string_end_pos == position + text_length
        remaining_content == Slice(text, string_end_pos, string_end_pos + ArrowLookahead)
        remaining_stripped == LStrip(remaining_content)
        after_quote == IF StartsWith(remaining_stripped, <<SQ>>) \/ StartsWith(remaining_stripped, <<DQ>>)
                       THEN LStrip(SliceFrom(remaining_stripped, 1))
                       ELSE remaining_stripped
    IN \/ (EndsWith(before_string_stripped, <<"[">>) /\ StartsWith(after_string, <<"]">>))
       \/ StartsWith(after_string, <<"=", ">">>)
       \/ StartsWith(after_quote, <<"=", ">">>)

\* PHPAnalyzer.should_include_string, with StringProcessor.should_extract_string
\* as the validator_func its callers pass
should_include_string(text, file_text, line, column, min_bytes) ==
    LET lines == SplitNL(file_text)
        current_line == lines[line]
        before_string == IF column > 0 THEN Slice(current_line, 0, column - 1) ELSE <<>>
        after_with_quote == SliceFrom(current_line, column + Len(text))
        after_string_raw == IF after_with_quote # <<>> /\ after_with_quote[1] \in {SQ, DQ}
                            THEN SliceFrom(after_with_quote, 1)
                            ELSE after_with_quote
        after_string == LStrip(after_string_raw)
        position == get_position_from_line_column(file_text, line, column)
    IN IF ~should_extract_string(text, min_bytes) THEN FALSE
       ELSE IF line < 1 \/ line > Len(lines) THEN FALSE
       ELSE IF is_excluded_by_function_pattern(before_string) THEN FALSE
       ELSE IF position = Invalid THEN TRUE
       ELSE ~is_array_key(before_string, after_string, file_text, position, Len(text))

\* the "validate and filter" loop of extract_and_validate_strings over the
\* literals, from literal k on
RECURSIVE ValidateLiterals(_, _, _, _, _)
ValidateLiterals(ranges, file_text, min_bytes, string_literals, k) ==
    IF k > Len(string_literals) THEN <<>>
    ELSE LET lit == string_literals[k]
             stripped_text == Strip(lit.text)
             position == get_position_from_line_column(file_text, lit.line, lit.column)
             rest == ValidateLiterals(ranges, file_text, min_bytes, string_literals, k + 1)
         IN IF stripped_text = <<>> THEN rest
            ELSE IF is_in_excluded_function_range(ranges, position) THEN rest
            ELSE IF should_include_string(stripped_text, file_text, lit.line, lit.column, min_bytes)
            THEN <<[text |-> stripped_text, line |-> lit.line,
                    column |-> lit.column + LeadingSpace(lit.text),
                    length |-> Len(stripped_text)]>> \o rest
            ELSE rest

\* steps 2 and 3 of extract_and_validate_strings, once step 1 has left
\* `ranges` in _excluded_ranges
ValidateAll(ranges, file_text, min_bytes) ==
    [results |-> ValidateLiterals(ranges, file_text, min_bytes,
                                  extract_string_literals(file_text, 0), 1),
     ranges |-> ranges]

\* PHPAnalyzer.extract_and_validate_strings on an analyzer whose
\* _excluded_ranges is `ranges`: the list returned and the _excluded_ranges
\* left behind
extract_and_validate_strings(ranges, file_text, min_bytes) ==
    ValidateAll(identify_excluded_function_definitions(
                    identify_excluded_function_ranges(ranges, file_text), file_text),
                file_text, min_bytes)

\* ====================================================================
\* The analyzer on texts written fragment by fragment
\* ====================================================================

InitAnalyzer ==
    /\ pc = "input"
    /\ content = <<>>
    /\ arg = 0                  \* fragments written
    /\ ret = <<>>
    /\ excluded_ranges = <<>>   \* PHPAnalyzer.__init__
    /\ strings = <<>>
    /\ patterns = <<>>

\* one more fragment of the text the analyzer will be given
AnalyzerWrite(fragment, limit) ==
    /\ pc = "input"
    /\ arg < limit
    /\ content' = content \o fragment
    /\ arg' = arg + 1
    /\ UNCHANGED <<pc, ret, excluded_ranges, strings, patterns>>

\* analyzer.extract_and_validate_strings(content, StringProcessor.should_extract_string);
\* `found` keeps the _excluded_ranges the call found on entry
AnalyzerCall ==
    /\ pc = "input"
    /\ \E x \in {extract_and_validate_strings(excluded_ranges, content, DefaultMinBytes)} :
          /\ ret' = [results |-> x.results, found |-> excluded_ranges]
          /\ excluded_ranges' = x.ranges
    /\ pc' = "analyzed"
    /\ UNCHANGED <<content, arg, strings, patterns>>

\* the caller moves on to its next text with the same analyzer, as
\* BladeProcessor._extract_from_php_blocks does for the next block
AnalyzerNextContent ==
    /\ pc = "analyzed"
    /\ pc' = "input"
    /\ content' = <<>>
    /\ arg' = 0
    /\ ret' = <<>>
    /\ UNCHANGED <<excluded_ranges, strings, patterns>>

\* the offset of the first content character of a literal the lexer emitted
LiteralOffset(text, lit) == get_position_from_line_column(text, lit.line, lit.column)

\* the entries of `results` that stand for the literal: those at the
\* position of the first character of its trimmed text
ResultsOf(text, results, lit) ==
    LET lc == get_line_column(text, LiteralOffset(text, lit) + LeadingSpace(lit.text))
    IN {k \in 1..Len(results) : results[k].line = lc[1] /\ results[k].column = lc[2]}

\* --------------------------------------------------------------------
\* SpecCallSites: a fresh analyzer on every text of at most MaxToks
\* fragments drawn from CallSiteFrags
\* --------------------------------------------------------------------

FragCall == <<"_", "_", "(">>
FragClose == <<")">>
FragLiteral == <<"'", "H", "i", "'">>
FragLiteralOnNextLine == <<"\n", "'", "H", "i", "'">>
FragParenInString == <<"'", ")", "'">>
FragParenInComment == <<"/", "*", ")", "*", "/">>

CallSiteFrags ==
    {FragCall, FragClose, FragLiteral, FragLiteralOnNextLine, FragParenInString, FragParenInComment}

NextCallSites ==
    \/ \E fragment \in CallSiteFrags : AnalyzerWrite(fragment, MaxToks)
    \/ AnalyzerCall

SpecCallSites == InitAnalyzer /\ [][NextCallSites]_vars

ExampleTranslate == <<"_", "_", "(", "'", "a", "u", "t", "h", ".", "f", "a", "i", "l", "e", "d", "'", ")">>
ExampleLog == <<"L", "o", "g", ":", ":", "e", "r", "r", "o", "r", "(", "'", "C", "o", "n", "n", "e", "c", "t", "i", "o", "n", " ", "f", "a", "i", "l", "e", "d", ":", " ", "'", " ", ".", " ", "$", "e", ")">>

\* what a fresh analyzer returns for the two examples
ExampleTranslateResults ==
    extract_and_validate_strings(<<>>, ExampleTranslate, DefaultMinBytes).results
ExampleLogResults ==
    extract_and_validate_strings(<<>>, ExampleLog, DefaultMinBytes).results

\* the denylisted call sites of a text that have a matching closing
\* parenthesis: the offset the match starts at and the offset of that
\* parenthesis
CallSites(text) ==
    UNION {LET ms == ReFindIter(CompiledPatterns[k], text, 0)
           IN {[start |-> ms[j].start, close |-> find_matching_parenthesis(text, ms[j].end - 1)] :
                  j \in DOMAIN ms} :
           k \in 1..Len(CompiledPatterns)}

\* C4: extract_and_validate_strings never returns a literal whose first
\* content character lies between the start of a denylisted call-site match
\* and that call's matching closing parenthesis (found by depth counting
\* that ignores parentheses in strings and comments, possibly on a later
\* line); __('auth.failed') and Log::error('Connection failed: ' . $e) yield
\* no literal.
C4_NoLiteralInsideCallSite ==
    /\ pc = "analyzed" =>
         LET literals == extract_string_literals(content, 0)
             sites == CallSites(content)
         IN \A k \in DOMAIN literals :
               LET p == LiteralOffset(content, literals[k])
               IN (\E c \in sites : c.close # Invalid /\ c.start <= p /\ p <= c.close)
                  => ResultsOf(content, ret.results, literals[k]) = {}
    /\ ExampleTranslateResults = <<>>
    /\ ExampleLogResults = <<>>

\* a literal on the line after an open call, with the parenthesis of a
\* string in between, sits inside the call's range and was not returned
C4_Witness ==
    /\ pc = "analyzed"
    /\ content = FragCall \o FragParenInString \o FragLiteralOnNextLine \o FragClose
    /\ [start |-> 0, close |-> Len(content) - 1] \in CallSites(content)
    /\ Len(extract_string_literals(content, 0)) = 2
    /\ ret.results = <<>>

\* --------------------------------------------------------------------
\* SpecArrayKeys: a fresh analyzer on every text of at most MaxToks
\* fragments drawn from ArrayKeyFrags
\* --------------------------------------------------------------------

FragOpenBracket == <<"[">>
FragCloseBracket == <<"]">>
FragPaddedLiteral == <<"'", " ", "H", "i", " ", "'">>
FragArrow == <<" ", "=", ">">>
FragNewline == <<"\n">>
FragSemicolon == <<";">>

ArrayKeyFrags ==
    {FragOpenBracket, FragCloseBracket, FragLiteral, FragPaddedLiteral, FragArrow,
     FragNewline, FragSemicolon}

NextArrayKeys ==
    \/ \E fragment \in ArrayKeyFrags : AnalyzerWrite(fragment, MaxToks)
    \/ AnalyzerCall

SpecArrayKeys == InitAnalyzer /\ [][NextArrayKeys]_vars

ExampleStatement == <<"\"", "W", "e", "l", "c", "o", "m", "e", ",", " ", "u", "s", "e", "r", "!", "\"", ";">>
ExampleStatementResults ==
    extract_and_validate_strings(<<>>, ExampleStatement, DefaultMinBytes).results

\* the literal is directly enclosed in [ and ]
DirectlyEnclosed(text, lit) ==
    LET open == LiteralOffset(text, lit) - 1
        close == LiteralOffset(text, lit) + Len(lit.text)
    IN HasAt(text, open - 1, <<"[">>) /\ HasAt(text, close + 1, <<"]">>)

\* the closing quote of the literal is followed, after only whitespace, by =>
FollowedByArrow(text, lit) ==
    LET close == LiteralOffset(text, lit) + Len(lit.text)
    IN StartsWith(LStrip(Slice(text, close + 1, close + 1 + ArrowLookahead)), <<"=", ">">>)

\* C5: should_include_string rejects every literal that is directly
\* enclosed in [ and ], and every literal whose closing quote is followed,
\* after only whitespace, by =>, whether or not the quoted content has
\* leading or trailing whitespace; "Welcome, user!" standing alone as a
\* statement is kept.
C5_ArrayKeysRejected ==
    /\ pc = "analyzed" =>
         LET literals == extract_string_literals(content, 0)
         IN \A k \in DOMAIN literals :
               (DirectlyEnclosed(content, literals[k]) \/ FollowedByArrow(content, literals[k]))
               => ResultsOf(content, ret.results, literals[k]) = {}
    /\ ExampleStatementResults =
         <<[text |-> SubSeq(ExampleStatement, 2, Len(ExampleStatement) - 2),
            line |-> 1, column |-> 1, length |-> Len(ExampleStatement) - 3]>>

\* --------------------------------------------------------------------
\* SpecReuse: one analyzer is given text after text, each of at most
\* MaxBlockToks fragments drawn from ReuseFrags
\* --------------------------------------------------------------------

MaxBlockToks == 3

FragDefinition == <<"p", "u", "b", "l", "i", "c", " ", "f", "u", "n", "c", "t", "i", "o", "n", " ", "r", "u", "l", "e", "s", "(", ")", ":", "a", "r", "r", "a", "y", "{", "}">>

FragTranslated == <<"_", "_", "(", "'", "H", "i", "'", ")">>

ReuseFrags == {FragTranslated, FragLiteralOnNextLine, FragDefinition}

NextReuse ==
    \/ \E fragment \in ReuseFrags : AnalyzerWrite(fragment, MaxBlockToks)
    \/ AnalyzerCall
    \/ AnalyzerNextContent

SpecReuse == InitAnalyzer /\ [][NextReuse]_vars

\* C10: the list extract_and_validate_strings returns depends only on the
\* content and min_bytes: after any sequence of earlier calls on one
\* analyzer it equals the list a fresh analyzer returns.
C10_ResultIndependentOfHistory ==
    pc = "analyzed" =>
        ret.results = extract_and_validate_strings(<<>>, content, DefaultMinBytes).results

\* an earlier call left ranges behind, and this call returned a literal that
\* lies inside one of them
C10_Witness ==
    /\ pc = "analyzed"
    /\ ret.found # <<>>
    /\ \E k \in DOMAIN ret.results :
          is_in_excluded_function_range(
              ret.found,
              get_position_from_line_column(content, ret.results[k].line, ret.results[k].column))

\* ====================================================================
\* PHPAnalyzer: PHP block detection
\* ====================================================================

\* PHPAnalyzer.find_block_end: the loop from offset `from` on
RECURSIVE find_block_end(_, _, _, _)
find_block_end(text, from, end_marker, end_marker_length) ==
    LET i == NextAt(text, from, {"/", "#", SQ, DQ, end_marker[1]})
    IN
    IF i >= Len(text) - (end_marker_length - 1) THEN Invalid
    ELSE LET c == SkipComment(text, i)
         IN IF c.found
            THEN IF c.next = Invalid THEN Invalid
                 ELSE find_block_end(text, c.next, end_marker, end_marker_length)
            ELSE IF At(text, i) \in {SQ, DQ}
            THEN find_block_end(text, SkipString(text, i + 1, At(text, i)).next,
                                end_marker, end_marker_length)
            ELSE IF Slice(text, i, i + end_marker_length) = end_marker THEN i
            ELSE find_block_end(text, i + 1, end_marker, end_marker_length)

TagOpen == <<"<", "?", "p", "h", "p">>
TagClose == <<"?", ">">>
BladeOpen == <<"@", "p", "h", "p">>
BladeClose == <<"@", "e", "n", "d", "p", "h", "p">>

\* the "<?php ... ?>" loop of extract_php_ranges, from offset pos on
RECURSIVE PhpTagRanges(_, _)
PhpTagRanges(text, pos) ==
    LET php_start == Find(text, TagOpen, pos)
        php_end == find_block_end(text, php_start + 5, TagClose, 2)
    IN IF php_start = Invalid THEN <<>>
       ELSE IF php_end = Invalid THEN <<[start |-> php_start, end |-> Len(text)]>>
       ELSE <<[start |-> php_start, end |-> php_end + 2]>> \o PhpTagRanges(text, php_end + 2)

\* the "@php ... @endphp" loop of extract_php_ranges, from offset pos on
RECURSIVE BladePhpRanges(_, _)
BladePhpRanges(text, pos) ==
    LET blade_php_start == Find(text, BladeOpen, pos)
        blade_php_end == find_block_end(text, blade_php_start + 4, BladeClose, 7)
    IN IF blade_php_start = Invalid THEN <<>>
       ELSE IF blade_php_start > 0 /\ IsAlnum(At(text, blade_php_start - 1))
       THEN BladePhpRanges(text, blade_php_start + 4)
       ELSE IF blade_php_end = Invalid
       THEN <<[start |-> blade_php_start, end |-> Len(text)]>>
       ELSE IF blade_php_end + 7 < Len(text) /\ IsAlnum(At(text, blade_php_end + 7))
       THEN BladePhpRanges(text, blade_php_end + 1)
       ELSE <<[start |-> blade_php_start, end |-> blade_php_end + 7]>>
            \o BladePhpRanges(text, blade_php_end + 7)

\* the order of list.sort on (start, end) tuples
RangeBefore(a, b) == a.start < b.start \/ (a.start = b.start /\ a.end <= b.end)

\* ranges.sort()
RECURSIVE SortRanges(_)
SortRanges(ranges) ==
    IF ranges = <<>> THEN <<>>
    ELSE LET k == CHOOSE k \in DOMAIN ranges : \A j \in DOMAIN ranges : RangeBefore(ranges[k], ranges[j])
         IN <<ranges[k]>> \o SortRanges(SubSeq(ranges, 1, k - 1) \o SubSeq(ranges, k + 1, Len(ranges)))

\* a merge loop that joins overlapping ranges but not adjacent ones
RECURSIVE MergeOverlappingOnly(_, _, _)
MergeOverlappingOnly(merged, ranges, k) ==
    IF k > Len(ranges) THEN merged
    ELSE IF ranges[k].start < merged[Len(merged)].end
    THEN MergeOverlappingOnly([merged EXCEPT ![Len(merged)].end = Max({@, ranges[k].end})],
                              ranges, k + 1)
    ELSE MergeOverlappingOnly(Append(merged, ranges[k]), ranges, k + 1)

\* the merge loop of extract_php_ranges over the sorted ranges, from range k on
RECURSIVE MergeRanges(_, _, _)
MergeRanges(merged, ranges, k) ==
    IF k > Len(ranges) THEN merged
    ELSE IF ranges[k].start <= merged[Len(merged)].end
    THEN MergeRanges([merged EXCEPT ![Len(merged)].end = Max({@, ranges[k].end})], ranges, k + 1)
    ELSE MergeRanges(Append(merged, ranges[k]), ranges, k + 1)

\* "sort and merge overlapping ranges"
SortAndMerge(ranges) ==
    IF ranges # <<>> THEN MergeRanges(<<SortRanges(ranges)[1]>>, SortRanges(ranges), 2) ELSE ranges

\* PHPAnalyzer.extract_php_ranges
extract_php_ranges(text, detect_blade) ==
    SortAndMerge(PhpTagRanges(text, 0) \o (IF detect_blade THEN BladePhpRanges(text, 0) ELSE <<>>))

\* --------------------------------------------------------------------
\* SpecBlocks: extract_php_ranges on every text of at most MaxToks
\* fragments drawn from BlockFrags, with and without Blade detection
\* --------------------------------------------------------------------

FragWordChar == <<"x">>
FragSpace == <<" ">>
FragQuote == <<"'">>

BlockFrags == {TagOpen, TagClose, BladeOpen, BladeClose, FragWordChar, FragSpace, FragQuote}

\* PHPAnalyzer.extract_php_ranges(content, detect_blade)
BlocksCall(detect_blade) ==
    /\ pc = "input"
    /\ ret' = [ranges |-> extract_php_ranges(content, detect_blade), detect_blade |-> detect_blade]
    /\ pc' = "ranged"
    /\ UNCHANGED <<content, arg, excluded_ranges, strings, patterns>>

NextBlocks ==
    \/ \E fragment \in BlockFrags : AnalyzerWrite(fragment, MaxToks)
    \/ \E detect_blade \in BOOLEAN : BlocksCall(detect_blade)

SpecBlocks == InitAnalyzer /\ [][NextBlocks]_vars

\* the openers of a text: every "<?php", and with Blade detection every
\* "@php" that does not follow an alphanumeric character
Openers(text, detect_blade) ==
    {p \in 0..Len(text) : HasAt(text, p, TagOpen)}
    \cup {p \in 0..Len(text) : /\ detect_blade
                               /\ HasAt(text, p, BladeOpen)
                               /\ ~(p > 0 /\ IsAlnum(At(text, p - 1)))}

\* the offsets from `from` on where the end marker stands outside strings
\* and comments
RECURSIVE BlockEnds(_, _, _)
BlockEnds(text, from, end_marker) ==
    LET q == find_block_end(text, from, end_marker, Len(end_marker))
    IN IF q = Invalid THEN {} ELSE {q} \cup BlockEnds(text, q + Len(end_marker), end_marker)

\* the valid close delimiters that follow the opener at p: "?>" outside
\* strings and comments for "<?php"; for "@php", "@endphp" outside strings
\* and comments that is not followed by an alphanumeric character
ValidClosers(text, p) ==
    IF HasAt(text, p, TagOpen) THEN BlockEnds(text, p + 5, TagClose)
    ELSE {q \in BlockEnds(text, p + 4, BladeClose) :
            ~(q + 7 < Len(text) /\ IsAlnum(At(text, q + 7)))}

\* C7: the first opener of a text is inside no earlier block; when no
\* valid close delimiter follows it, extract_php_ranges returns a range
\* that starts at it and ends at len(content).
C7_OpenEndedBlock ==
    (pc = "ranged" /\ Openers(content, ret.detect_blade) # {}) =>
        LET p == Min(Openers(content, ret.detect_blade))
        IN ValidClosers(content, p) = {} =>
              \E k \in 1..Len(ret.ranges) : ret.ranges[k] = [start |-> p, end |-> Len(content)]

\* the blocks extract_php_ranges detects, before it sorts and merges them
DetectedBlocks(text, detect_blade) ==
    PhpTagRanges(text, 0) \o (IF detect_blade THEN BladePhpRanges(text, 0) ELSE <<>>)

\* the offsets the ranges cover
Covered(ranges) == UNION {ranges[k].start..(ranges[k].end - 1) : k \in 1..Len(ranges)}

\* the text holds "<?php", or "@php" when Blade blocks are looked for
HasOpener(text, detect_blade) ==
    \/ Find(text, TagOpen, 0) # Invalid
    \/ detect_blade /\ Find(text, BladeOpen, 0) # Invalid

\* C19: the list extract_php_ranges returns is sorted by start offset, every
\* range has 0 <= start < end <= len(content), every range starts strictly
\* after the end of the one before it, the ranges cover exactly the offsets
\* the detected "<?php" and "@php" blocks cover, and the list is empty when
\* the content holds no opener.
C19_RangesSortedDisjointCovering ==
    pc = "ranged" =>
        /\ \A k \in 1..Len(ret.ranges) :
              /\ 0 <= ret.ranges[k].start
              /\ ret.ranges[k].start < ret.ranges[k].end
              /\ ret.ranges[k].end <= Len(content)
        /\ \A k \in 1..(Len(ret.ranges) - 1) :
              /\ ret.ranges[k].start < ret.ranges[k + 1].start
              /\ ret.ranges[k].end < ret.ranges[k + 1].start
        /\ Covered(ret.ranges) = Covered(DetectedBlocks(content, ret.detect_blade))
        /\ ~HasOpener(content, ret.detect_blade) => ret.ranges = <<>>

\* a "<?php" block and the "@php" block that starts where it ends were
\* returned as one range
C19_Witness ==
    /\ pc = "ranged"
    /\ ret.detect_blade
    /\ content = TagOpen \o TagClose \o BladeOpen \o BladeClose
    /\ Len(DetectedBlocks(content, TRUE)) = 2
    /\ ret.ranges = <<[start |-> 0, end |-> Len(content)]>>

\* the "@php" at offset p is a word of its own: no alphanumeric character
\* stands just before it or just after it
IsBladeOpenWord(text, p) ==
    /\ HasAt(text, p, BladeOpen)
    /\ ~(p > 0 /\ IsAlnum(At(text, p - 1)))
    /\ ~(p + 4 < Len(text) /\ IsAlnum(At(text, p + 4)))

\* an "@endphp" that no alphanumeric character follows ends at offset e
IsBladeCloseWordEnd(text, e) ==
    /\ HasAt(text, e - 7, BladeClose)
    /\ ~(e < Len(text) /\ IsAlnum(At(text, e)))

\* C20: with Blade detection on, a range that starts at "@php" starts at an
\* "@php" that is neither preceded nor followed by an alphanumeric character
\* ("@phpunit" opens no block), and in a content without "<?php" every
\* range ends at the end of the content or just after an "@endphp" that no
\* alphanumeric character follows.
C20_BladeWordBoundaries ==
    (pc = "ranged" /\ ret.detect_blade) =>
        /\ \A k \in 1..Len(ret.ranges) :
              HasAt(content, ret.ranges[k].start, BladeOpen)
                  => IsBladeOpenWord(content, ret.ranges[k].start)
        /\ Find(content, TagOpen, 0) = Invalid =>
              \A k \in 1..Len(ret.ranges) :
                  \/ ret.ranges[k].end = Len(content)
                  \/ IsBladeCloseWordEnd(content, ret.ranges[k].end)

\* ====================================================================
\* PHPProcessor (mods/php_processor.py)
\*
\* Its lexer _extract_string_literals, its _get_position_from_line_column
\* and the "sort and merge" end of its _extract_php_ranges repeat the code
\* of PHPAnalyzer.extract_string_literals,
\* StringProcessor.get_position_from_line_column and
\* PHPAnalyzer.extract_php_ranges statement by statement; the operators
\* that model those are used for both.  The pattern lists hold the entries
\* that can match a text written with the fragments of this model.
\* ====================================================================

TRANSLATION_FUNCTIONS == <<<<"_", "_", "\\", "s", "*", "\\", "(">>>>
LOG_FUNCTIONS == <<<<"L", "o", "g", ":", ":", "\\", "w", "+", "\\", "s", "*", "\\", "(">>>>
CONSOLE_OUTPUT == <<<<"\\", "b", "e", "c", "h", "o", "\\", "s", "+">>>>
COMMAND_OUTPUT == <<>>
PHPProcessor_REGEX_FUNCTIONS == <<>>
PHPProcessor_PHP_BUILTIN_FUNCTIONS == <<>>
ELOQUENT_METHODS == <<>>

\* the lists in the order _should_include_string tries them, as re compiles
\* their entries
PHPProcessorPatterns ==
    TRANSLATION_FUNCTIONS \o LOG_FUNCTIONS \o CONSOLE_OUTPUT \o COMMAND_OUTPUT
    \o PHPProcessor_REGEX_FUNCTIONS \o PHPProcessor_PHP_BUILTIN_FUNCTIONS \o ELOQUENT_METHODS

PHPProcessorCompiled ==
    [k \in 1..Len(PHPProcessorPatterns) |-> ReParse(PHPProcessorPatterns[k], 0).items]

\* the "<?php ... ?>" loop of PHPProcessor._extract_php_ranges
RECURSIVE PHPProcessorTagRanges(_, _)
PHPProcessorTagRanges(text, pos) ==
    LET php_start == Find(text, TagOpen, pos)
        php_end == Find(text, TagClose, php_start)
    IN IF php_start = Invalid THEN <<>>
       ELSE IF php_end = Invalid THEN <<[start |-> php_start, end |-> Len(text)]>>
       ELSE <<[start |-> php_start, end |-> php_end + 2]>> \o PHPProcessorTagRanges(text, php_end + 2)

\* the "@php ... @endphp" loop of PHPProcessor._extract_php_ranges
RECURSIVE PHPProcessorBladeRanges(_, _)
PHPProcessorBladeRanges(text, pos) ==
    LET blade_php_start == Find(text, BladeOpen, pos)
        blade_php_end == Find(text, BladeClose, blade_php_start)
    IN IF blade_php_start = Invalid THEN <<>>
       ELSE IF blade_php_start > 0 /\ IsAlnum(At(text, blade_php_start - 1))
       THEN PHPProcessorBladeRanges(text, blade_php_start + 4)
       ELSE IF blade_php_end = Invalid
       THEN <<[start |-> blade_php_start, end |-> Len(text)]>>
       ELSE <<[start |-> blade_php_start, end |-> blade_php_end + 7]>>
            \o PHPProcessorBladeRanges(text, blade_php_end + 7)

\* PHPProcessor._extract_php_ranges
PHPProcessor_extract_php_ranges(text) ==
    SortAndMerge(PHPProcessorTagRanges(text, 0) \o PHPProcessorBladeRanges(text, 0))

\* PHPProcessor._is_in_php_block
is_in_php_block(php_ranges, position) ==
    \E k \in 1..Len(php_ranges) : php_ranges[k].start <= position /\ position < php_ranges[k].end

\* re.search(r"[\w\)\]]\s*\[$", s) for a text s without a line break: s ends
\* with "[", and before the whitespace before it stands a word character,
\* ")" or "]"
ArrayAccessBefore(s) ==
    /\ EndsWith(s, <<"[">>)
    /\ LET t == RStrip(Slice(s, 0, Len(s) - 1))
       IN t # <<>> /\ (IsWord(t[Len(t)]) \/ t[Len(t)] \in {")", "]"})

\* the checks of _should_include_string on a literal inside a PHP block
InBlockChecks(text, before_string, after_string) ==
    IF \E k \in 1..Len(PHPProcessorCompiled) : ReSearch(PHPProcessorCompiled[k], before_string)
    THEN FALSE
    ELSE IF EndsWith(RStrip(before_string), <<"[">>) /\ StartsWith(after_string, <<"]">>) THEN FALSE
    ELSE IF ArrayAccessBefore(RStrip(before_string)) /\ StartsWith(after_string, <<"]">>) THEN FALSE
    ELSE TRUE

\* PHPProcessor._should_include_string
PHPProcessor_should_include_string(php_ranges, text, file_text, line, column, min_bytes) ==
    LET position == get_position_from_line_column(file_text, line, column)
        lines == SplitNL(file_text)
    IN IF ~validator_should_extract_string(text, min_bytes) THEN FALSE
       ELSE IF position = Invalid THEN TRUE
       ELSE IF ~is_in_php_block(php_ranges, position) THEN TRUE
       ELSE IF line < 1 \/ line > Len(lines) THEN FALSE
       ELSE InBlockChecks(text, Slice(lines[line], 0, column),
                          LStrip(SliceFrom(lines[line], column + Len(text))))

\* the "filter and clean" loop of PHPProcessor.process over the literals,
\* from literal k on
RECURSIVE ProcessLiterals(_, _, _, _, _)
ProcessLiterals(php_ranges, file_text, min_bytes, string_literals, k) ==
    IF k > Len(string_literals) THEN <<>>
    ELSE LET lit == string_literals[k]
             stripped_text == Strip(lit.text)
             rest == ProcessLiterals(php_ranges, file_text, min_bytes, string_literals, k + 1)
         IN IF stripped_text = <<>> THEN rest
            ELSE IF PHPProcessor_should_include_string(php_ranges, stripped_text, file_text,
                                                       lit.line, lit.column, min_bytes)
            THEN <<[text |-> stripped_text, line |-> lit.line,
                    column |-> lit.column + LeadingSpace(lit.text),
                    length |-> Len(stripped_text)]>> \o rest
            ELSE rest

\* PHPProcessor.process on a file that holds file_text
PHPProcessor_process(file_text, min_bytes) ==
    ProcessLiterals(PHPProcessor_extract_php_ranges(file_text), file_text, min_bytes,
                    extract_string_literals(file_text, 0), 1)

\* ====================================================================
\* BladeProcessor (mods/blade_processor.py): the PHP blocks of a template
\* ====================================================================

\* one validated string of a block, moved from the block to the file
ToAbsolute(file_text, start_pos, php_content, r) ==
    LET relative_pos == get_position_from_line_column(php_content, r.line, r.column)
        lc == get_line_column(file_text, start_pos + relative_pos)
    IN [text |-> r.text, line |-> lc[1], column |-> lc[2], length |-> r.length]

RECURSIVE extract_from_php_blocks(_, _, _, _, _)

\* the body of the loop of _extract_from_php_blocks for block k, where x is
\* what the analyzer returned and left for the content of the block
BlockStrings(file_text, php_ranges, k, min_bytes, x) ==
    LET rest == extract_from_php_blocks(x.ranges, file_text, php_ranges, k + 1, min_bytes)
    IN [results |-> [j \in 1..Len(x.results) |->
                        ToAbsolute(file_text, php_ranges[k].start,
                                   Slice(file_text, php_ranges[k].start, php_ranges[k].end),
                                   x.results[j])]
                    \o rest.results,
        ranges |-> rest.ranges]

\* BladeProcessor._extract_from_php_blocks from block k on, with an analyzer
\* whose _excluded_ranges is `ranges`: the results, and the _excluded_ranges
\* left behind
extract_from_php_blocks(ranges, file_text, php_ranges, k, min_bytes) ==
    IF k > Len(php_ranges) THEN [results |-> <<>>, ranges |-> ranges]
    ELSE BlockStrings(file_text, php_ranges, k, min_bytes,
                      extract_and_validate_strings(
                          ranges, Slice(file_text, php_ranges[k].start, php_ranges[k].end), min_bytes))

\* --------------------------------------------------------------------
\* SpecProcess: a file of at most MaxToks fragments drawn from
\* ProcessFrags is processed as a PHP file, or the PHP blocks of it are
\* processed as those of a Blade template
\* --------------------------------------------------------------------

FragLeadingNewlineLiteral == <<"'", "\n", " ", "H", "i", "'">>
FragTwoLineLiteral == <<"'", "H", "i", "\n", "Y", "o", "'">>

ProcessFrags ==
    {TagOpen, FragLiteral, FragLeadingNewlineLiteral, FragTwoLineLiteral, FragCall, FragNewline,
     FragSemicolon}

\* PHPProcessor(file_path, min_bytes).process()
ProcessPHP ==
    /\ pc = "input"
    /\ ret' = [processor |-> "php", results |-> PHPProcessor_process(content, DefaultMinBytes)]
    /\ pc' = "processed"
    /\ UNCHANGED <<content, arg, excluded_ranges, strings, patterns>>

\* BladeProcessor.process: step 1 (the PHP ranges of the template) and step 5
\* (_extract_from_php_blocks), whose results process returns as they are.
\* The markup results that process returns before them come out of the
\* BeautifulSoup parser and are not part of `results` here.
ProcessBladePhpBlocks ==
    /\ pc = "input"
    /\ \E x \in {extract_from_php_blocks(excluded_ranges, content,
                                         extract_php_ranges(content, TRUE), 1, DefaultMinBytes)} :
          /\ ret' = [processor |-> "blade", results |-> x.results]
          /\ excluded_ranges' = x.ranges
    /\ pc' = "processed"
    /\ UNCHANGED <<content, arg, strings, patterns>>

NextProcess ==
    \/ \E fragment \in ProcessFrags : AnalyzerWrite(fragment, MaxToks)
    \/ ProcessPHP
    \/ ProcessBladePhpBlocks

SpecProcess == InitAnalyzer /\ [][NextProcess]_vars

\* C1: for every string emitted for a file, the characters of source line
\* `line` from index `column` up to `column + length` are exactly `text`.
C1_PositionRoundTrip ==
    pc = "processed" =>
        \A k \in 1..Len(ret.results) :
            /\ ret.results[k].line \in 1..Len(SplitNL(content))
            /\ Slice(SplitNL(content)[ret.results[k].line], ret.results[k].column,
                     ret.results[k].column + ret.results[k].length) = ret.results[k].text

\* ====================================================================
\* extract_strings: the extract action
\* ====================================================================

\* StringCollector(*args): __init__(self) takes no argument besides self, so
\* Python raises TypeError when the call passes any
StringCollector_init(args) ==
    [raised |-> Len(args) # 0, strings |-> <<>>]

\* the loop of process_php_file over the results of the processor, from
\* result k on: the value of collector.strings after it
RECURSIVE AddExtracted(_, _, _, _)
AddExtracted(d, file_path, results, k) ==
    IF k > Len(results) THEN d
    ELSE AddExtracted(add_string(d, results[k].text, file_path, results[k].line,
                                 results[k].column, results[k].length),
                      file_path, results, k + 1)

\* process_php_file(file_path, collector, min_bytes, context_lines)
process_php_file(d, file_path, file_text, min_bytes) ==
    AddExtracted(d, file_path, PHPProcessor_process(file_text, min_bytes), 1)

\* the file loop of extract_strings, from file k on; a file is the name of
\* a regular .php file, its text and whether it can be read and decoded, and
\* st holds collector.strings, processed_count and error_count.  open() in
\* PHPProcessor.process raises for a file that cannot be read, before any
\* add_string, and the loop counts the error and goes on.
RECURSIVE ProcessFiles(_, _, _, _, _)
ProcessFiles(st, files, k, enable_php, min_bytes) ==
    IF k > Len(files) THEN st
    ELSE IF ~enable_php THEN ProcessFiles(st, files, k + 1, enable_php, min_bytes)
    ELSE IF ~files[k].readable
    THEN ProcessFiles([st EXCEPT !.error_count = @ + 1], files, k + 1, enable_php, min_bytes)
    ELSE ProcessFiles([st EXCEPT !.strings = process_php_file(@, files[k].name, files[k].text, min_bytes),
                                 !.processed_count = @ + 1],
                      files, k + 1, enable_php, min_bytes)

\* the dictionaries extract_strings loads: the embedded one first, then the
\* user's; a dictionary is whether its file exists (for the user's: whether a
\* path was given and exists) and the file's text
LoadDictionaries(embedded, user) ==
    IF user.exists
    THEN append_from_file(IF embedded.exists THEN append_from_file(<<>>, embedded.text) ELSE <<>>,
                          user.text)
    ELSE IF embedded.exists THEN append_from_file(<<>>, embedded.text) ELSE <<>>

\* what a run of extract_strings leaves: the exit code, the patterns of
\* exclude_matcher, collector.strings, the counters of the file loop, whether
\* format_output was called and the results it was given
ExtractResult(code, pats, st, written) ==
    [code |-> code, patterns |-> pats, strings |-> st.strings,
     processed_count |-> st.processed_count, error_count |-> st.error_count,
     written |-> written, output |-> IF written THEN get_results(st.strings) ELSE <<>>]

\* the collector and the counters before the file loop
NoneProcessed == [strings |-> <<>>, processed_count |-> 0, error_count |-> 0]

\* extract_strings once the file loop has ended: consolidation and output
ExtractOutput(pats, st) == ExtractResult(0, pats, st, TRUE)

\* extract_strings from the construction of the collector on, with stdout as
\* the output; an exception leaves through `except Exception` with code 1
ExtractWith(pats, collector, files, enable_php, min_bytes) ==
    IF collector.raised
    THEN ExtractResult(1, pats, NoneProcessed, FALSE)
    ELSE IF files = <<>>
    THEN ExtractResult(0, pats, NoneProcessed, TRUE)
    ELSE ExtractOutput(pats, ProcessFiles([NoneProcessed EXCEPT !.strings = collector.strings],
                                          files, 1, enable_php, min_bytes))

\* extract_strings(directory, "**/*.php", None, ...)
extract_strings(directory_exists, embedded, user, files, enable_php, min_bytes) ==
    IF ~directory_exists
    THEN ExtractResult(1, <<>>, NoneProcessed, FALSE)
    ELSE ExtractWith(LoadDictionaries(embedded, user),
                     StringCollector_init(<<"exclude_matcher">>),
                     files, enable_php, min_bytes)

\* --------------------------------------------------------------------
\* SpecExtract: a project of the .php files of FileNames that hold the same
\* text of at most MaxFileToks fragments, some of them unreadable, an
\* embedded and a user dictionary of at most MaxDictLines lines each, and
\* one run of extract_strings over them.  arg holds the dictionaries as
\* written, content the text of the files.
\* --------------------------------------------------------------------

MaxDictLines == 1
MaxFileToks == 3

ExtractDictLines == {LineGlob, LineNegated, LineComment}
ExtractFrags == {TagOpen, FragLiteral, FragNewline}
FileNames == <<"a.php", "b.php">>

InitExtract ==
    /\ pc = "input"
    /\ content = <<>>
    /\ arg = [fragments |-> 0, embedded |-> <<>>, user |-> <<>>]
    /\ ret = <<>>
    /\ excluded_ranges = <<>>
    /\ strings = <<>>
    /\ patterns = <<>>

\* one more line of dict/embed-exclude-dict.txt
ExtractWriteEmbedded(line) ==
    /\ pc = "input"
    /\ LinesWritten(arg.embedded) < MaxDictLines
    /\ arg' = [arg EXCEPT !.embedded = @ \o line \o <<NL>>]
    /\ UNCHANGED <<pc, content, ret, excluded_ranges, strings, patterns>>

\* one more line of the file --exclude-dict names
ExtractWriteUser(line) ==
    /\ pc = "input"
    /\ LinesWritten(arg.user) < MaxDictLines
    /\ arg' = [arg EXCEPT !.user = @ \o line \o <<NL>>]
    /\ UNCHANGED <<pc, content, ret, excluded_ranges, strings, patterns>>

\* one more fragment of the text of the files
ExtractWriteFile(fragment) ==
    /\ pc = "input"
    /\ arg.fragments < MaxFileToks
    /\ content' = content \o fragment
    /\ arg' = [arg EXCEPT !.fragments = @ + 1]
    /\ UNCHANGED <<pc, ret, excluded_ranges, strings, patterns>>

\* the files find_files_iter yields: the first n names, those of `unreadable`
\* not readable
FilesFound(n, unreadable, text) ==
    [k \in 1..n |-> [name |-> FileNames[k], text |-> text, readable |-> k \notin unreadable]]

\* extract_strings(directory, "**/*.php", None, [], 100, 2, False, 0, True,
\* enable_php, exclude_dict_path)
ExtractStrings(directory_exists, embedded_exists, user_exists, enable_php, files) ==
    /\ pc = "input"
    /\ \E x \in {extract_strings(directory_exists,
                                 [exists |-> embedded_exists, text |-> arg.embedded],
                                 [exists |-> user_exists, text |-> arg.user],
                                 files, enable_php, DefaultMinBytes)} :
          /\ ret' = [code |-> x.code, output |-> x.output, written |-> x.written,
                     processed_count |-> x.processed_count, error_count |-> x.error_count,
                     directory_exists |-> directory_exists, enable_php |-> enable_php,
                     files |-> files]
          /\ patterns' = x.patterns
          /\ strings' = x.strings
    /\ pc' = "extracted"
    /\ UNCHANGED <<content, arg, excluded_ranges>>

NextExtract ==
    \/ \E line \in ExtractDictLines : ExtractWriteEmbedded(line)
    \/ \E line \in ExtractDictLines : ExtractWriteUser(line)
    \/ \E fragment \in ExtractFrags : ExtractWriteFile(fragment)
    \/ \E directory_exists, embedded_exists, user_exists, enable_php \in BOOLEAN :
          \E n \in 0..Len(FileNames) : \E unreadable \in SUBSET (1..n) :
              ExtractStrings(directory_exists, embedded_exists, user_exists, enable_php,
                             FilesFound(n, unreadable, content))

SpecExtract == InitExtract /\ [][NextExtract]_vars

\* the files of the run the file processors can process: those of an
\* enabled type that can be read
ProcessedFiles ==
    {k \in 1..Len(ret.files) : ret.directory_exists /\ ret.enable_php /\ ret.files[k].readable}

\* the texts the file processors emit in the run
EmittedTexts ==
    {PHPProcessor_process(content, DefaultMinBytes)[k].text :
        k \in {j \in 1..Len(PHPProcessor_process(content, DefaultMinBytes)) : ProcessedFiles # {}}}

\* the texts of the collector's results
CollectedTexts == {ret.output[k].text : k \in 1..Len(ret.output)}

\* C9: in a run of extract_strings with an exclusion dictionary loaded, a
\* text for which should_exclude returns true never appears in the
\* collector's results, and every text the file processors emit for which it
\* returns false does appear.
C9_DictionaryApplied ==
    (pc = "extracted" /\ patterns # <<>>) =>
        /\ \A text \in CollectedTexts : ~should_exclude(patterns, text, 1, FALSE).excluded
        /\ \A text \in EmittedTexts :
              ~should_exclude(patterns, text, 1, FALSE).excluded => text \in CollectedTexts

\* the files of the run whose processing raises: those of an enabled type
\* that cannot be read
FailedFiles ==
    {k \in 1..Len(ret.files) : ret.directory_exists /\ ret.enable_php /\ ~ret.files[k].readable}

\* the resolved paths the collector holds an occurrence for
CollectedPaths ==
    UNION {{strings[i].files[j].file : j \in 1..Len(strings[i].files)} : i \in 1..Len(strings)}

\* the collector holds an occurrence of every text the processor emits for
\* the file of the given name
FileCollected(name) ==
    \A e \in 1..Len(PHPProcessor_process(content, DefaultMinBytes)) :
        \E i \in 1..Len(strings) :
            /\ strings[i].text = PHPProcessor_process(content, DefaultMinBytes)[e].text
            /\ \E j \in 1..Len(strings[i].files) : strings[i].files[j].file = Resolve(name)

\* C12: in a run of extract_strings over an existing directory, a file whose
\* processing raises adds no occurrence to the collector and adds one to the
\* error count, every other file of an enabled type is processed whether it
\* comes before or after a failing one, and processed + failed + skipped
\* files are the files found.
C12_FailureIsolated ==
    (pc = "extracted" /\ ret.directory_exists) =>
        /\ ret.error_count = Cardinality(FailedFiles)
        /\ ret.processed_count = Cardinality(ProcessedFiles)
        /\ \A k \in FailedFiles : Resolve(ret.files[k].name) \notin CollectedPaths
        /\ \A k \in ProcessedFiles : FileCollected(ret.files[k].name)

\* C13: extract_strings on an existing directory in which no file is found,
\* or in which no string is extracted, writes an empty result list and
\* returns 0.
C13_EmptyResultIsSuccess ==
    (pc = "extracted" /\ ret.directory_exists /\ (ret.files = <<>> \/ EmittedTexts = {})) =>
        /\ ret.code = 0
        /\ ret.written
        /\ ret.output = <<>>


\* ====================================================================
\* PHPAnalyzer: the scan loops, one iteration at a time
\*
\* arg holds the locals of the running loop: the cursor i (pos in
\* extract_php_ranges), the quote of the string the inner loop is in, the
\* depth of the bracket count, and the offset an offset-returning scanner
\* has returned (value); ret holds the list a list-returning scanner builds
\* and returns.  An iteration is the body of the
\* loop followed by the test of the loop condition that comes next.
\* ====================================================================

\* the body of the while loop of find_block_end at cursor i
FindBlockEndBody(text, i, end_marker) ==
    IF SkipComment(text, i).found
    THEN IF SkipComment(text, i).next = Invalid
         THEN [to |-> "return", i |-> i, value |-> Invalid]
         ELSE [to |-> "loop", i |-> SkipComment(text, i).next, value |-> Invalid]
    ELSE IF At(text, i) \in {SQ, DQ} THEN [to |-> "string", i |-> i + 1, value |-> Invalid]
    ELSE IF Slice(text, i, i + Len(end_marker)) = end_marker
    THEN [to |-> "return", i |-> i, value |-> i]
    ELSE [to |-> "loop", i |-> i + 1, value |-> Invalid]

\* the body of the outer while loop of extract_string_literals at cursor i
ExtractStringLiteralsBody(text, i) ==
    IF SkipComment(text, i).found
    THEN IF SkipComment(text, i).next = Invalid
         THEN [to |-> "break", i |-> i]
         ELSE [to |-> "loop", i |-> SkipComment(text, i).next]
    ELSE IF At(text, i) \in {SQ, DQ} THEN [to |-> "string", i |-> i + 1]
    ELSE [to |-> "loop", i |-> i + 1]

\* the body of the while loop of _find_matching_parenthesis and
\* _find_matching_brace at cursor i
FindMatchingBody(text, i, depth, open, close) ==
    IF SkipComment(text, i).found
    THEN IF SkipComment(text, i).next = Invalid
         THEN [to |-> "return", i |-> i, depth |-> depth, value |-> Invalid]
         ELSE [to |-> "loop", i |-> SkipComment(text, i).next, depth |-> depth, value |-> Invalid]
    ELSE IF At(text, i) \in {SQ, DQ}
    THEN [to |-> "string", i |-> i + 1, depth |-> depth, value |-> Invalid]
    ELSE IF At(text, i) = open
    THEN [to |-> "loop", i |-> i + 1, depth |-> depth + 1, value |-> Invalid]
    ELSE IF At(text, i) = close
    THEN IF depth - 1 = 0
         THEN [to |-> "return", i |-> i, depth |-> depth - 1, value |-> i]
         ELSE [to |-> "loop", i |-> i + 1, depth |-> depth - 1, value |-> Invalid]
    ELSE [to |-> "loop", i |-> i + 1, depth |-> depth, value |-> Invalid]

\* the body of the inner while loop over a quoted string at cursor i: the
\* characters it consumes and whether it leaves the loop
StringBody(text, i, quote) ==
    IF At(text, i) = BS /\ i + 1 < Len(text)
    THEN [to |-> "string", i |-> i + 2, chars |-> <<At(text, i), At(text, i + 1)>>]
    ELSE IF At(text, i) = quote
    THEN [to |-> "closed", i |-> i + 1, chars |-> <<>>]
    ELSE [to |-> "string", i |-> i + 1, chars |-> <<At(text, i)>>]

\* the body of the "<?php" loop of extract_php_ranges at cursor pos, given
\* what content.find returned
PhpTagsFound(text, php_start, php_end) ==
    IF php_end = Invalid
    THEN [to |-> "break", i |-> php_start, ranges |-> <<[start |-> php_start, end |-> Len(text)]>>]
    ELSE [to |-> "loop", i |-> php_end + 2, ranges |-> <<[start |-> php_start, end |-> php_end + 2]>>]

PhpTagsBody(text, pos) ==
    IF Find(text, TagOpen, pos) = Invalid
    THEN [to |-> "break", i |-> pos, ranges |-> <<>>]
    ELSE PhpTagsFound(text, Find(text, TagOpen, pos),
                      find_block_end(text, Find(text, TagOpen, pos) + 5, TagClose, 2))

\* the "@php" loop body where a closer that fails the word check leaves pos
\* at the opener
BladePhpFoundStuck(text, blade_php_start, blade_php_end) ==
    IF blade_php_end = Invalid
    THEN [to |-> "break", i |-> blade_php_start,
          ranges |-> <<[start |-> blade_php_start, end |-> Len(text)]>>]
    ELSE IF blade_php_end + 7 < Len(text) /\ IsAlnum(At(text, blade_php_end + 7))
    THEN [to |-> "loop", i |-> blade_php_start, ranges |-> <<>>]
    ELSE [to |-> "loop", i |-> blade_php_end + 7,
          ranges |-> <<[start |-> blade_php_start, end |-> blade_php_end + 7]>>]

\* the body of the "@php" loop of extract_php_ranges once an opener that
\* passes the word check is found
BladePhpFound(text, blade_php_start, blade_php_end) ==
    IF blade_php_end = Invalid
    THEN [to |-> "break", i |-> blade_php_start,
          ranges |-> <<[start |-> blade_php_start, end |-> Len(text)]>>]
    ELSE IF blade_php_end + 7 < Len(text) /\ IsAlnum(At(text, blade_php_end + 7))
    THEN [to |-> "loop", i |-> blade_php_end + 1, ranges |-> <<>>]
    ELSE [to |-> "loop", i |-> blade_php_end + 7,
          ranges |-> <<[start |-> blade_php_start, end |-> blade_php_end + 7]>>]

\* the body of the "@php" loop of extract_php_ranges at cursor pos
BladePhpBody(text, pos) ==
    IF Find(text, BladeOpen, pos) = Invalid
    THEN [to |-> "break", i |-> pos, ranges |-> <<>>]
    ELSE IF Find(text, BladeOpen, pos) > 0 /\ IsAlnum(At(text, Find(text, BladeOpen, pos) - 1))
    THEN [to |-> "loop", i |-> Find(text, BladeOpen, pos) + 4, ranges |-> <<>>]
    ELSE BladePhpFound(text, Find(text, BladeOpen, pos),
                       find_block_end(text, Find(text, BladeOpen, pos) + 4, BladeClose, 7))

\* --------------------------------------------------------------------
\* SpecScan: a text of at most MaxScanToks fragments drawn from ScanFrags
\* is given to one of the scanners, which runs iteration by iteration to
\* its return
\* --------------------------------------------------------------------

MaxScanToks == 3

ScanFrags ==
    {TagOpen, TagClose, BladeOpen, BladeClose, <<"x">>, <<SQ>>, <<BS>>, <<"(">>, <<")">>,
     <<"{">>, <<"}">>, <<"/", "*">>, <<"#">>, <<NL>>}

NoLoop ==
    [fragments |-> 0, loop |-> "", i |-> 0, quote |-> "", depth |-> 0, end_marker |-> <<>>,
     start_pos |-> 0, string_chars |-> <<>>, detect_blade |-> FALSE, value |-> 0]

InitScan ==
    /\ pc = "input"
    /\ content = <<>>
    /\ arg = NoLoop
    /\ ret = <<>>
    /\ excluded_ranges = <<>>
    /\ strings = <<>>
    /\ patterns = <<>>

\* one more fragment of the text
ScanWrite(fragment) ==
    /\ pc = "input"
    /\ arg.fragments < MaxScanToks
    /\ content' = content \o fragment
    /\ arg' = [arg EXCEPT !.fragments = @ + 1]
    /\ UNCHANGED <<pc, ret, excluded_ranges, strings, patterns>>

\* the condition of the while loop of the running scanner at cursor i
LoopCondition(loop, text, i, depth, end_marker) ==
    IF loop = "find_block_end" THEN i < Len(text) - (Len(end_marker) - 1)
    ELSE IF loop = "extract_string_literals" THEN i < Len(text)
    ELSE i < Len(text) /\ depth > 0

\* the offset-returning scanners return -1 when their while loop ends
LoopExitValue(loop) ==
    IF loop = "extract_string_literals" THEN 0 ELSE Invalid

\* the scanner goes on at the top of its while loop with the locals
\* `locals` and the results `results`, or returns when the condition fails
ToLoopTop(locals, results) ==
    /\ IF LoopCondition(locals.loop, content, locals.i, locals.depth, locals.end_marker)
       THEN pc' = "scan" /\ arg' = locals
       ELSE pc' = "done" /\ arg' = [locals EXCEPT !.value = LoopExitValue(locals.loop)]
    /\ ret' = results
    /\ UNCHANGED <<content, excluded_ranges, strings, patterns>>

\* the scanner enters the inner loop over a string with the locals `locals`;
\* when that loop's condition fails at once, the `continue` after it leads to
\* the top of the while loop
ToStringLoop(locals) ==
    IF locals.i < Len(content)
    THEN /\ pc' = "string"
         /\ arg' = locals
         /\ UNCHANGED <<content, ret, excluded_ranges, strings, patterns>>
    ELSE ToLoopTop(locals, ret)

\* an offset-returning scanner returns value
ToReturn(locals, value) ==
    /\ pc' = "done"
    /\ arg' = [locals EXCEPT !.value = value]
    /\ UNCHANGED <<content, ret, excluded_ranges, strings, patterns>>

\* PHPAnalyzer.find_block_end(content, start_pos, end_marker, len(end_marker)) is called
FindBlockEndStart(start_pos, end_marker) ==
    /\ pc = "input"
    /\ ToLoopTop([arg EXCEPT !.loop = "find_block_end", !.i = start_pos,
                             !.end_marker = end_marker], <<>>)

\* one iteration of the while loop of find_block_end
FindBlockEndIteration ==
    /\ pc = "scan"
    /\ arg.loop = "find_block_end"
    /\ \E r \in {FindBlockEndBody(content, arg.i, arg.end_marker)} :
          IF r.to = "return" THEN ToReturn(arg, r.value)
          ELSE IF r.to = "string"
          THEN ToStringLoop([arg EXCEPT !.i = r.i, !.quote = At(content, arg.i)])
          ELSE ToLoopTop([arg EXCEPT !.i = r.i], ret)

\* analyzer.extract_string_literals(content) is called
ExtractStringLiteralsStart ==
    /\ pc = "input"
    /\ ToLoopTop([arg EXCEPT !.loop = "extract_string_literals", !.i = 0], <<>>)

\* one iteration of the outer while loop of extract_string_literals
ExtractStringLiteralsIteration ==
    /\ pc = "scan"
    /\ arg.loop = "extract_string_literals"
    /\ \E r \in {ExtractStringLiteralsBody(content, arg.i)} :
          IF r.to = "break" THEN ToReturn(arg, 0)
          ELSE IF r.to = "string"
          THEN ToStringLoop([arg EXCEPT !.i = r.i, !.quote = At(content, arg.i),
                                        !.start_pos = arg.i, !.string_chars = <<>>])
          ELSE ToLoopTop([arg EXCEPT !.i = r.i], ret)

\* analyzer._find_matching_parenthesis(content, open_pos) or
\* analyzer._find_matching_brace(content, open_pos) is called
FindMatchingStart(loop, open_pos) ==
    /\ pc = "input"
    /\ IF open_pos >= Len(content)
          \/ At(content, open_pos) # (IF loop = "_find_matching_brace" THEN "{" ELSE "(")
       THEN ToReturn([arg EXCEPT !.loop = loop, !.i = open_pos], Invalid)
       ELSE ToLoopTop([arg EXCEPT !.loop = loop, !.i = open_pos + 1, !.depth = 1], <<>>)

\* one iteration of the while loop of _find_matching_parenthesis or
\* _find_matching_brace
FindMatchingIteration ==
    /\ pc = "scan"
    /\ arg.loop \in {"_find_matching_parenthesis", "_find_matching_brace"}
    /\ \E r \in {FindMatchingBody(content, arg.i, arg.depth,
                                  IF arg.loop = "_find_matching_brace" THEN "{" ELSE "(",
                                  IF arg.loop = "_find_matching_brace" THEN "}" ELSE ")")} :
          IF r.to = "return" THEN ToReturn([arg EXCEPT !.depth = r.depth], r.value)
          ELSE IF r.to = "string"
          THEN ToStringLoop([arg EXCEPT !.i = r.i, !.quote = At(content, arg.i)])
          ELSE ToLoopTop([arg EXCEPT !.i = r.i, !.depth = r.depth], ret)

\* the literal the inner loop of extract_string_literals emits at the closing
\* quote, if any
EmitLiteral(text, string_chars, start_pos) ==
    IF string_chars # <<>> /\ ~IsSpaceStr(string_chars)
    THEN <<[text |-> string_chars, line |-> get_line_column(text, start_pos + 1)[1],
            column |-> get_line_column(text, start_pos + 1)[2], length |-> Len(string_chars)]>>
    ELSE <<>>

\* one iteration of the inner while loop over a quoted string, in any of the
\* scanners
StringIteration ==
    /\ pc = "string"
    /\ \E r \in {StringBody(content, arg.i, arg.quote)} :
          IF r.to = "closed"
          THEN ToLoopTop([arg EXCEPT !.i = r.i],
                         IF arg.loop = "extract_string_literals"
                         THEN ret \o EmitLiteral(content, arg.string_chars, arg.start_pos)
                         ELSE ret)
          ELSE ToStringLoop([arg EXCEPT !.i = r.i, !.string_chars = @ \o r.chars])

\* PHPAnalyzer.extract_php_ranges(content, detect_blade) is called
ExtractPhpRangesStart(detect_blade) ==
    /\ pc = "input"
    /\ pc' = "scan"
    /\ arg' = [arg EXCEPT !.loop = "php_tags", !.i = 0, !.detect_blade = detect_blade]
    /\ ret' = <<>>
    /\ UNCHANGED <<content, excluded_ranges, strings, patterns>>

\* one iteration of the "<?php" loop of extract_php_ranges; when it breaks,
\* the "@php" loop starts at pos = 0 or, without Blade detection, the ranges
\* are sorted, merged and returned
PhpTagsIteration ==
    /\ pc = "scan"
    /\ arg.loop = "php_tags"
    /\ \E r \in {PhpTagsBody(content, arg.i)} :
          /\ IF r.to = "loop"
             THEN pc' = "scan" /\ arg' = [arg EXCEPT !.i = r.i] /\ ret' = ret \o r.ranges
             ELSE IF arg.detect_blade
             THEN pc' = "scan" /\ arg' = [arg EXCEPT !.loop = "blade_php", !.i = 0]
                  /\ ret' = ret \o r.ranges
             ELSE pc' = "done" /\ arg' = arg /\ ret' = SortAndMerge(ret \o r.ranges)
    /\ UNCHANGED <<content, excluded_ranges, strings, patterns>>

\* one iteration of the "@php" loop of extract_php_ranges; when it breaks,
\* the ranges are sorted, merged and returned
BladePhpIteration ==
    /\ pc = "scan"
    /\ arg.loop = "blade_php"
    /\ \E r \in {BladePhpBody(content, arg.i)} :
          /\ IF r.to = "loop"
             THEN pc' = "scan" /\ arg' = [arg EXCEPT !.i = r.i] /\ ret' = ret \o r.ranges
             ELSE pc' = "done" /\ arg' = arg /\ ret' = SortAndMerge(ret \o r.ranges)
    /\ UNCHANGED <<content, excluded_ranges, strings, patterns>>

NextScan ==
    \/ \E fragment \in ScanFrags : ScanWrite(fragment)
    \/ \E end_marker \in {TagClose, BladeClose} : FindBlockEndStart(0, end_marker)
    \/ FindBlockEndIteration
    \/ ExtractStringLiteralsStart
    \/ ExtractStringLiteralsIteration
    \/ \E loop \in {"_find_matching_parenthesis", "_find_matching_brace"} :
          FindMatchingStart(loop, 0)
    \/ FindMatchingIteration
    \/ StringIteration
    \/ \E detect_blade \in BOOLEAN : ExtractPhpRangesStart(detect_blade)
    \/ PhpTagsIteration
    \/ BladePhpIteration

\* a called scanner keeps running: the program is sequential and nothing
\* suspends a loop
SpecScan == InitScan /\ [][NextScan]_vars /\ WF_vars(NextScan)

\* the value the scanner that ran returns according to the functions above
ScanValue ==
    IF arg.loop = "find_block_end"
    THEN find_block_end(content, 0, arg.end_marker, Len(arg.end_marker))
    ELSE IF arg.loop = "extract_string_literals" THEN extract_string_literals(content, 0)
    ELSE IF arg.loop = "_find_matching_parenthesis" THEN find_matching_parenthesis(content, 0)
    ELSE IF arg.loop = "_find_matching_brace" THEN find_matching_brace(content, 0)
    ELSE extract_php_ranges(content, arg.detect_blade)

\* the iteration-by-iteration scanners return what the functions compute
ScanAgrees ==
    pc = "done" =>
        IF arg.loop \in {"extract_string_literals", "php_tags", "blade_php"}
        THEN ret = ScanValue
        ELSE arg.value = ScanValue

\* C11: every iteration of a scan loop that leads to another iteration of
\* the same loop strictly advances the cursor, and every called scanner
\* returns, on every text: with unterminated strings and comments,
\* unbalanced brackets and "@endphp" closers the word check rejects.
C11_ScansAdvanceAndEnd ==
    /\ [][(pc \in {"scan", "string"} /\ pc' \in {"scan", "string"} /\ arg'.loop = arg.loop)
              => arg'.i > arg.i]_vars
    /\ <>(pc = "done")

\* extract_php_ranges has returned on "@php@endphpx", whose closer the word
\* check rejects
C11_Witness ==
    /\ pc = "done"
    /\ arg.loop = "blade_php"
    /\ content = BladeOpen \o BladeClose \o <<"x">>

\* ====================================================================
\* PromptBuilder (mods/prompt_builder.py): the XML exchange with the
\* translation provider.  TranslationProvider in providers/base.py holds
\* the same _escape_xml and parse_xml_responses.
\* ====================================================================

\* html.escape(text, quote=False) of one character
EscapeChar(c) ==
    IF c = "&" THEN <<"&", "a", "m", "p", ";">>
    ELSE IF c = "<" THEN <<"&", "l", "t", ";">>
    ELSE IF c = ">" THEN <<"&", "g", "t", ";">>
    ELSE <<c>>

\* PromptBuilder._escape_xml
RECURSIVE escape_xml(_)
escape_xml(text) ==
    IF text = <<>> THEN <<>> ELSE EscapeChar(Head(text)) \o escape_xml(Tail(text))

\* html.entities.html5: the named character references whose name is made
\* of the letters a, g, l, m, p, t, x (the letters of the texts of this
\* model), each with the text it stands for
Html5 ==
    <<<<<<"a", "m", "a", "l", "g", ";">>, <<"U2A3F">>>>,
     <<<<"a", "m", "p">>, <<"&">>>>,
     <<<<"a", "m", "p", ";">>, <<"&">>>>,
     <<<<"a", "p", ";">>, <<"U2248">>>>,
     <<<<"g", "a", "m", "m", "a", ";">>, <<"U03B3">>>>,
     <<<<"g", "a", "p", ";">>, <<"U2A86">>>>,
     <<<<"g", "g", ";">>, <<"U226B">>>>,
     <<<<"g", "g", "g", ";">>, <<"U22D9">>>>,
     <<<<"g", "l", ";">>, <<"U2277">>>>,
     <<<<"g", "l", "a", ";">>, <<"U2AA5">>>>,
     <<<<"g", "t">>, <<">">>>>,
     <<<<"g", "t", ";">>, <<">">>>>,
     <<<<"l", "a", "p", ";">>, <<"U2A85">>>>,
     <<<<"l", "a", "t", ";">>, <<"U2AAB">>>>,
     <<<<"l", "g", ";">>, <<"U2276">>>>,
     <<<<"l", "l", ";">>, <<"U226A">>>>,
     <<<<"l", "t">>, <<"<">>>>,
     <<<<"l", "t", ";">>, <<"<">>>>,
     <<<<"m", "a", "l", "t", ";">>, <<"U2720">>>>,
     <<<<"m", "a", "p", ";">>, <<"U21A6">>>>,
     <<<<"m", "p", ";">>, <<"U2213">>>>,
     <<<<"p", "m", ";">>, <<"U00B1">>>>,
     <<<<"x", "m", "a", "p", ";">>, <<"U27FC">>>>>>

\* the text html5 holds for the name, <<>> when it is not a name
Html5Lookup(name) ==
    IF \E k \in 1..Len(Html5) : Html5[k][1] = name
    THEN Html5[CHOOSE k \in 1..Len(Html5) : Html5[k][1] = name][2]
    ELSE <<>>

\* [^\t\n\f <&#;] of html._charref
IsCharrefNameChar(c) == c \notin {"\t", "\n", "\f", " ", "<", "&", "#", ";"}

\* the end of the match of html._charref at the "&" at offset i, or -1: one
\* to 32 name characters and a ";" when one follows (no text of this model
\* holds "#", so numeric references do not occur)
CharrefEnd(s, i) ==
    IF i + 1 < Len(s) /\ IsCharrefNameChar(At(s, i + 1))
    THEN (IF NextAt(s, i + 1, {"\t", "\n", "\f", " ", "<", "&", "#", ";"}) < Len(s)
             /\ At(s, NextAt(s, i + 1, {"\t", "\n", "\f", " ", "<", "&", "#", ";"})) = ";"
          THEN NextAt(s, i + 1, {"\t", "\n", "\f", " ", "<", "&", "#", ";"}) + 1
          ELSE NextAt(s, i + 1, {"\t", "\n", "\f", " ", "<", "&", "#", ";"}))
    ELSE Invalid

\* html._replace_charref for a named reference: the loop over the prefixes
\* s[:x] from x down to 2
RECURSIVE ReplacePrefix(_, _)
ReplacePrefix(s, x) ==
    IF x < 2 THEN <<"&">> \o s
    ELSE IF Html5Lookup(Slice(s, 0, x)) # <<>> THEN Html5Lookup(Slice(s, 0, x)) \o SliceFrom(s, x)
    ELSE ReplacePrefix(s, x - 1)

\* html._replace_charref(s) with s the name matched after "&"
replace_charref(s) ==
    IF Html5Lookup(s) # <<>> THEN Html5Lookup(s) ELSE ReplacePrefix(s, Len(s) - 1)

\* html.unescape: _charref.sub(_replace_charref, s) from offset i on
RECURSIVE unescape(_, _)
unescape(s, i) ==
    IF Find(s, <<"&">>, i) = Invalid THEN SliceFrom(s, i)
    ELSE IF CharrefEnd(s, Find(s, <<"&">>, i)) = Invalid
    THEN Slice(s, i, Find(s, <<"&">>, i) + 1) \o unescape(s, Find(s, <<"&">>, i) + 1)
    ELSE Slice(s, i, Find(s, <<"&">>, i))
         \o replace_charref(Slice(s, Find(s, <<"&">>, i) + 1, CharrefEnd(s, Find(s, <<"&">>, i))))
         \o unescape(s, CharrefEnd(s, Find(s, <<"&">>, i)))

\* "<tag>" and "</tag>"
OpenTag(tag) == <<"<">> \o tag \o <<">">>
CloseTag(tag) == <<"<", "/">> \o tag \o <<">">>

\* re.search(r"<tag>(.*?)</tag>", content, re.DOTALL) from offset pos on:
\* whether it matches, group(1) and the end of the match
TagGroupAt(block, tag, open) ==
    IF open = Invalid \/ Find(block, CloseTag(tag), open + Len(tag) + 2) = Invalid
    THEN [found |-> FALSE, group |-> <<>>, end |-> Invalid]
    ELSE [found |-> TRUE,
          group |-> Slice(block, open + Len(tag) + 2,
                          Find(block, CloseTag(tag), open + Len(tag) + 2)),
          end |-> Find(block, CloseTag(tag), open + Len(tag) + 2) + Len(tag) + 3]

TagGroup(block, tag, pos) == TagGroupAt(block, tag, Find(block, OpenTag(tag), pos))

TagText == <<"t", "e", "x", "t">>
TagResponse == <<"r", "e", "s", "p", "o", "n", "s", "e">>
TagTranslations == <<"t", "r", "a", "n", "s", "l", "a", "t", "i", "o", "n", "s">>
WordFalse == <<"f", "a", "l", "s", "e">>

\* the offset after the whitespace that starts at offset i
SkipSpace(s, i) == Min({j \in i..Len(s) : j = Len(s) \/ ~IsSpace(At(s, j))})

\* re.search(r"<translations>\s*false\s*</translations>", content) for a
\* content in lower case
IsFalseTranslations(block) ==
    \E p \in 0..Len(block) :
        /\ HasAt(block, p, OpenTag(TagTranslations))
        /\ HasAt(block, SkipSpace(block, p + 14), WordFalse)
        /\ HasAt(block, SkipSpace(block, SkipSpace(block, p + 14) + 5),
                 CloseTag(TagTranslations))

\* the loop of parse_xml_responses over the languages, from language k on:
\* the translations dict as a sequence of entries
RECURSIVE LanguageTranslations(_, _, _)
LanguageTranslations(block, languages, k) ==
    IF k > Len(languages) THEN <<>>
    ELSE (IF TagGroup(block, languages[k], 0).found
          THEN <<[lang_code |-> languages[k],
                  text |-> unescape(Strip(TagGroup(block, languages[k], 0).group), 0)]>>
          ELSE <<>>)
         \o LanguageTranslations(block, languages, k + 1)

\* the body of the loop over the <response> blocks for one block: the
\* entry it stores in results, if any
ResponseEntry(block, languages) ==
    IF ~TagGroup(block, TagText, 0).found THEN <<>>
    ELSE IF IsFalseTranslations(block)
    THEN <<[text |-> unescape(Strip(TagGroup(block, TagText, 0).group), 0),
            is_false |-> TRUE, translations |-> <<>>]>>
    ELSE IF LanguageTranslations(block, languages, 1) # <<>>
    THEN <<[text |-> unescape(Strip(TagGroup(block, TagText, 0).group), 0),
            is_false |-> FALSE, translations |-> LanguageTranslations(block, languages, 1)]>>
    ELSE <<>>

\* the loop over re.finditer(r"<response>(.*?)</response>", response_text)
\* from offset pos on: the entries stored in results, in order
RECURSIVE ResponseEntries(_, _, _)
ResponseEntries(response_text, languages, pos) ==
    IF ~TagGroup(response_text, TagResponse, pos).found THEN <<>>
    ELSE ResponseEntry(TagGroup(response_text, TagResponse, pos).group, languages)
         \o ResponseEntries(response_text, languages, TagGroup(response_text, TagResponse, pos).end)

\* results[text] of the dict the entries were stored in: the last entry
\* stored under text
LastEntry(entries, text) ==
    entries[Max({k \in 1..Len(entries) : entries[k].text = text})]

\* the output item for one item, given the entries stored in results
OutputItem(entries, text) ==
    IF \E k \in 1..Len(entries) : entries[k].text = text
    THEN [text |-> text, matched |-> TRUE, is_false |-> LastEntry(entries, text).is_false,
          translations |-> LastEntry(entries, text).translations]
    ELSE [text |-> text, matched |-> FALSE, is_false |-> FALSE, translations |-> <<>>]

\* the loop over the items given the entries stored in results
MatchItems(entries, items) == [k \in 1..Len(items) |-> OutputItem(entries, items[k].text)]

\* PromptBuilder.parse_xml_responses(response_text, items, languages)
parse_xml_responses(response_text, items, languages) ==
    MatchItems(ResponseEntries(response_text, languages, 0), items)

\* --------------------------------------------------------------------
\* SpecTranslate: an item whose text has at most MaxXmlToks fragments
\* drawn from XmlFrags is sent, and a response that holds one block for
\* it, with the escaped text of the request as its <text>, is parsed
\* --------------------------------------------------------------------

MaxXmlToks == 3

XmlFrags == {<<"&">>, <<"<">>, <<">">>, <<" ">>, <<"a", "m", "p", ";">>, <<"x">>, <<"l", "t">>}

LangEn == <<"e", "n">>

\* a <response> block in the format the prompt asks for
ResponseBlock(text, translations) ==
    OpenTag(TagResponse) \o <<NL>> \o OpenTag(TagText) \o text \o CloseTag(TagText) \o <<NL>>
    \o OpenTag(TagTranslations) \o translations \o CloseTag(TagTranslations) \o <<NL>>
    \o CloseTag(TagResponse) \o <<NL>>

\* the translations the provider answers with: false, or one for "en"
ProviderTranslations ==
    {WordFalse, <<NL>> \o OpenTag(LangEn) \o <<"Y", "o">> \o CloseTag(LangEn) \o <<NL>>}

\* one more fragment of the item's text
TranslateWrite(fragment) ==
    /\ pc = "input"
    /\ arg < MaxXmlToks
    /\ content' = content \o fragment
    /\ arg' = arg + 1
    /\ UNCHANGED <<pc, ret, excluded_ranges, strings, patterns>>

\* PromptBuilder.parse_xml_responses(response_text, items, languages) on the
\* provider's response to the request for the item
ParseXmlResponses(translations) ==
    /\ pc = "input"
    /\ \E response_text \in {ResponseBlock(escape_xml(content), translations)} :
          ret' = [response_text |-> response_text,
                  output |-> parse_xml_responses(response_text, <<[text |-> content]>>, <<LangEn>>)]
    /\ pc' = "parsed"
    /\ UNCHANGED <<content, arg, excluded_ranges, strings, patterns>>

NextTranslate ==
    \/ \E fragment \in XmlFrags : TranslateWrite(fragment)
    \/ \E translations \in ProviderTranslations : ParseXmlResponses(translations)

SpecTranslate == InitCommon /\ [][NextTranslate]_vars

\* C15: a response block whose <text> is the XML-escaped form of the item's
\* text t is matched back to the item: what parse_xml_responses makes of the
\* response text is t exactly, for every t, with "&", "<", ">", entity-like
\* sequences, and leading or trailing whitespace.
C15_TextRoundTrip ==
    pc = "parsed" =>
        /\ unescape(Strip(escape_xml(content)), 0) = content
        /\ ret.output[1].text = content
        /\ ret.output[1].matched

\* ====================================================================
\* PHPAnalyzer.extract_string_literals against the lexical structure of
\* the text
\* ====================================================================

\* the lexical class of every offset from i on, read character by
\* character in the given state ("code", "block", "line", SQ or DQ):
\* "block" and "line" inside a comment, delimiters included, "open" and
\* "close" at the quotes of a string, "str" inside a string
RECURSIVE Lex(_, _, _)
Lex(text, i, state) ==
    IF i >= Len(text) THEN <<>>
    ELSE IF state = "code"
    THEN (IF HasAt(text, i, <<"/", "*">>) THEN <<"block", "block">> \o Lex(text, i + 2, "block")
          ELSE IF HasAt(text, i, <<"/", "/">>) THEN <<"line", "line">> \o Lex(text, i + 2, "line")
          ELSE IF At(text, i) = "#" THEN <<"line">> \o Lex(text, i + 1, "line")
          ELSE IF At(text, i) \in {SQ, DQ} THEN <<"open">> \o Lex(text, i + 1, At(text, i))
          ELSE <<"code">> \o Lex(text, i + 1, "code"))
    ELSE IF state = "block"
    THEN (IF HasAt(text, i, <<"*", "/">>) THEN <<"block", "block">> \o Lex(text, i + 2, "code")
          ELSE <<"block">> \o Lex(text, i + 1, "block"))
    ELSE IF state = "line"
    THEN <<"line">> \o Lex(text, i + 1, IF At(text, i) = NL THEN "code" ELSE "line")
    ELSE (IF At(text, i) = BS /\ i + 1 < Len(text) THEN <<"str", "str">> \o Lex(text, i + 2, state)
          ELSE IF At(text, i) = state THEN <<"close">> \o Lex(text, i + 1, "code")
          ELSE <<"str">> \o Lex(text, i + 1, state))

\* the lexical class of offset i of the text
LexAt(text, i) == Lex(text, 0, "code")[i + 1]

\* the string opened at offset q is closed before the end of the text
StringClosed(text, q) ==
    \E e \in (q + 1)..(Len(text) - 1) :
        /\ LexAt(text, e) = "close"
        /\ \A j \in (q + 1)..(e - 1) : LexAt(text, j) = "str"

\* a block comment opens at offset p and is not closed
BlockUnclosed(text, p) ==
    /\ HasAt(text, p, <<"/", "*">>)
    /\ \A j \in p..(Len(text) - 1) : LexAt(text, j) = "block"
    /\ (p = 0 \/ LexAt(text, p - 1) # "block" \/ HasAt(text, p - 2, <<"*", "/">>))
    /\ Find(text, <<"*", "/">>, p + 2) = Invalid

\* the offsets q whose following offset has the (line, column) of the literal
QuoteOffsets(text, lit) ==
    {q \in 0..(Len(text) - 1) : get_line_column(text, q + 1) = <<lit.line, lit.column>>}

\* the offset of the opening quote of an emitted literal
QuoteOffset(text, lit) == CHOOSE q \in QuoteOffsets(text, lit) : TRUE

\* the character at offset j of a string opened at offset q is escaped: an
\* odd number of backslashes stands between it and the last character
\* before it that is not a backslash (or the opening quote)
IsEscaped(text, q, j) ==
    (j - 1 - Max({m \in q..(j - 1) : m = q \/ At(text, m) # BS})) % 2 = 1

\* --------------------------------------------------------------------
\* SpecLiterals: extract_string_literals on every text of at most
\* MaxLitToks fragments drawn from LitFrags
\* --------------------------------------------------------------------

MaxLitToks == 4

LitFrags ==
    {<<SQ>>, <<DQ>>, <<"x">>, <<" ">>, <<BS>>, <<NL>>, <<"#">>,
     <<"/", "*">>, <<"*", "/">>, <<"/", "/">>, <<BS, DQ>>, FragLiteral}

\* analyzer.extract_string_literals(content)
ExtractStringLiterals ==
    /\ pc = "input"
    /\ ret' = extract_string_literals(content, 0)
    /\ pc' = "lexed"
    /\ UNCHANGED <<content, arg, excluded_ranges, strings, patterns>>

NextLiterals ==
    \/ \E fragment \in LitFrags : AnalyzerWrite(fragment, MaxLitToks)
    \/ ExtractStringLiterals

SpecLiterals == InitAnalyzer /\ [][NextLiterals]_vars

\* C16: no emitted literal has its opening quote inside a block, "//" or
\* "#" comment; an opening quote with no matching unescaped closing quote
\* of its kind before the end of the text gives no literal and nothing is
\* emitted after it; nothing is emitted after a "/*" that is not closed.
C16_NoLiteralFromCommentOrUnclosed ==
    pc = "lexed" =>
        /\ \A k \in 1..Len(ret) :
              /\ QuoteOffsets(content, ret[k]) # {}
              /\ LexAt(content, QuoteOffset(content, ret[k])) = "open"
              /\ StringClosed(content, QuoteOffset(content, ret[k]))
        /\ \A q \in 0..(Len(content) - 1) :
              (LexAt(content, q) = "open" /\ ~StringClosed(content, q)) =>
                  \A k \in 1..Len(ret) : QuoteOffset(content, ret[k]) < q
        /\ \A p \in 0..(Len(content) - 1) :
              BlockUnclosed(content, p) =>
                  \A k \in 1..Len(ret) : QuoteOffset(content, ret[k]) < p

\* one literal was emitted from a text with a literal, then a block comment
\* that is never closed and holds a quoted text with an open string after it
C16_Witness ==
    /\ pc = "lexed"
    /\ content = FragLiteral \o <<"/", "*">> \o FragLiteral \o <<DQ>>
    /\ BlockUnclosed(content, 4)
    /\ Len(ret) = 1

\* C17: every emitted literal (content, line, column, length) has an opening
\* quote at an offset q such that the content is the text strictly between q
\* and the first unescaped quote of the same kind after it, backslashes and
\* the characters after them kept as they are; (line, column) is the
\* position of q + 1; length is the length of the content; the content is
\* neither empty nor made of whitespace only; and the literals come in
\* increasing offset order, each opening after the closing quote of the one
\* before.
C17_LiteralIsQuotedSource ==
    pc = "lexed" =>
        /\ \A k \in 1..Len(ret) :
              \E q \in 0..(Len(content) - 1) :
                  /\ At(content, q) \in {SQ, DQ}
                  /\ get_line_column(content, q + 1) = <<ret[k].line, ret[k].column>>
                  /\ ret[k].length = Len(ret[k].text)
                  /\ ret[k].text = Slice(content, q + 1, q + 1 + ret[k].length)
                  /\ ret[k].text # <<>>
                  /\ \E j \in 1..Len(ret[k].text) : ~IsSpace(ret[k].text[j])
                  /\ q + 1 + ret[k].length < Len(content)
                  /\ At(content, q + 1 + ret[k].length) = At(content, q)
                  /\ ~IsEscaped(content, q, q + 1 + ret[k].length)
                  /\ \A j \in (q + 1)..(q + ret[k].length) :
                        At(content, j) = At(content, q) => IsEscaped(content, q, j)
        /\ \A k \in 1..(Len(ret) - 1) :
              QuoteOffset(content, ret[k]) + ret[k].length + 1 < QuoteOffset(content, ret[k + 1])

\* two literals were emitted, the first with an escaped quote of its own
\* kind inside it
C17_Witness ==
    /\ pc = "lexed"
    /\ content = <<DQ, BS, DQ, DQ>> \o FragLiteral
    /\ Len(ret) = 2
    /\ ret[1].text = <<BS, DQ>>

\* ====================================================================
\* The two PHP block detectors against the lexical structure of the block
\* ====================================================================

\* the opener that stands at offset p, and the close delimiter of its block
OpenerAt(text, p) == IF HasAt(text, p, TagOpen) THEN TagOpen ELSE BladeOpen
CloserOf(opener) == IF opener = TagOpen THEN TagClose ELSE BladeClose

\* the offsets after the opener at p where its close delimiter stands outside
\* the string literals and the comments of the block, read character by
\* character from the end of the opener; "@endphp" counts when no alphanumeric
\* character follows it
CloseDelimiters(text, p) ==
    {e \in (p + Len(OpenerAt(text, p)))..Len(text) :
        /\ HasAt(text, e, CloserOf(OpenerAt(text, p)))
        /\ Lex(text, p + Len(OpenerAt(text, p)), "code")[e - (p + Len(OpenerAt(text, p))) + 1] = "code"
        /\ (OpenerAt(text, p) = BladeOpen =>
               ~(e + 7 < Len(text) /\ IsAlnum(At(text, e + 7))))}

\* the offset just after the first close delimiter of the block opened at p
BlockEnd(text, p) == Min(CloseDelimiters(text, p)) + Len(CloserOf(OpenerAt(text, p)))

\* --------------------------------------------------------------------
\* SpecDetectors: PHPAnalyzer.extract_php_ranges and
\* PHPProcessor._extract_php_ranges on every text of at most MaxToks
\* fragments drawn from DetectorFrags
\* --------------------------------------------------------------------

DetectorFrags ==
    {TagOpen, TagClose, BladeOpen, BladeClose, <<SQ>>, <<"/", "/">>, <<NL>>, <<"x">>, <<" ">>}

\* PHPAnalyzer.extract_php_ranges(content, detect_blade)
AnalyzerRanges(detect_blade) ==
    /\ pc = "input"
    /\ ret' = [ranges |-> extract_php_ranges(content, detect_blade),
               detect_blade |-> detect_blade, detector |-> "PHPAnalyzer"]
    /\ pc' = "ranged"
    /\ UNCHANGED <<content, arg, excluded_ranges, strings, patterns>>

\* PHPProcessor._extract_php_ranges(content), which always looks for "@php"
ProcessorRanges ==
    /\ pc = "input"
    /\ ret' = [ranges |-> PHPProcessor_extract_php_ranges(content),
               detect_blade |-> TRUE, detector |-> "PHPProcessor"]
    /\ pc' = "ranged"
    /\ UNCHANGED <<content, arg, excluded_ranges, strings, patterns>>

NextDetectors ==
    \/ \E fragment \in DetectorFrags : AnalyzerWrite(fragment, MaxToks)
    \/ \E detect_blade \in BOOLEAN : AnalyzerRanges(detect_blade)
    \/ ProcessorRanges

SpecDetectors == InitAnalyzer /\ [][NextDetectors]_vars

\* the first opener of the text has a close delimiter outside strings and
\* comments, no opener of the other kind stands before the end of its block
\* and no opener stands at its end, so that no other block is merged with it
FirstBlockClosedAlone(text, detect_blade) ==
    /\ Openers(text, detect_blade) # {}
    /\ CloseDelimiters(text, Min(Openers(text, detect_blade))) # {}
    /\ \A o \in Openers(text, detect_blade) :
          /\ o # BlockEnd(text, Min(Openers(text, detect_blade)))
          /\ OpenerAt(text, o) # OpenerAt(text, Min(Openers(text, detect_blade)))
                => o > BlockEnd(text, Min(Openers(text, detect_blade)))

IsEscapePairs(text) ==
    /\ text # <<>>
    /\ Len(text) % 2 = 0
    /\ \A k \in 1..Len(text) : k % 2 = 1 => text[k] = BS

\* --------------------------------------------------------------------
\* SpecEscapeFilter: StringProcessor.should_extract_string (the template
\* path) and string_validator.should_extract_string (the plain-script
\* path) on every text of at most MaxLen characters of EscapeFilterChars
\* --------------------------------------------------------------------

EscapeFilterChars == {BS, "n", "H", "0", " ", KO}

\* StringProcessor.should_extract_string(content, min_bytes)
TemplateFilterCall(min_bytes) ==
    /\ pc = "input"
    /\ arg' = min_bytes
    /\ ret' = [accepted |-> should_extract_string(content, min_bytes), path |-> "template"]
    /\ pc' = "filtered"
    /\ UNCHANGED <<content, excluded_ranges, strings, patterns>>

\* string_validator.should_extract_string(content, min_bytes)
ScriptFilterCall(min_bytes) ==
    /\ pc = "input"
    /\ arg' = min_bytes
    /\ ret' = [accepted |-> validator_should_extract_string(content, min_bytes), path |-> "script"]
    /\ pc' = "filtered"
    /\ UNCHANGED <<content, excluded_ranges, strings, patterns>>

NextEscapeFilter ==
    \/ \E c \in EscapeFilterChars : FilterAppend(c)
    \/ \E min_bytes \in MinBytesValues : TemplateFilterCall(min_bytes)
    \/ \E min_bytes \in MinBytesValues : ScriptFilterCall(min_bytes)

SpecEscapeFilter == InitCommon /\ [][NextEscapeFilter]_vars

\* C21: on the template path and on the plain-script path alike, the filter
\* rejects every text that consists solely of one or more pairs of a
\* backslash and one character, whatever the character.
C21_EscapePairsRejected ==
    (pc = "filtered" /\ IsEscapePairs(content)) => ~ret.accepted

\* ====================================================================
\* The call-site rule of PHPAnalyzer.should_include_string
\* ====================================================================

\* before_string of should_include_string: the line of the literal up to,
\* and without, its opening quote
BeforeString(file_text, line, column) ==
    IF column > 0 THEN Slice(SplitNL(file_text)[line], 0, column - 1) ELSE <<>>

\* the literal whose first content character is at offset p is an argument
\* of a denylisted call: the call starts before it and is not closed before it
IsCallArgument(text, p) ==
    \E c \in CallSites(text) : c.start <= p /\ (c.close = Invalid \/ p <= c.close)

\* C22: the call-site rule rejects a literal only when the literal is an
\* argument of a denylisted call; a literal that stands later on the line,
\* after the call has been closed, is not rejected by the rule.
C22_CallSiteRuleOnlyForArguments ==
    pc = "analyzed" =>
        \A k \in 1..Len(extract_string_literals(content, 0)) :
            is_excluded_by_function_pattern(
                BeforeString(content, extract_string_literals(content, 0)[k].line,
                             extract_string_literals(content, 0)[k].column))
            => IsCallArgument(content, LiteralOffset(content, extract_string_literals(content, 0)[k]))

\* ====================================================================
\* BladeProcessor (mods/blade_processor.py): the markup of a template
\*
\* The pattern lists hold the entries that can match a text written with
\* the fragments of this model.
\* ====================================================================

BLADE_TRANSLATION_PATTERNS ==
    <<<<BS, "{", BS, "{", BS, "s", "*", "_", "_", BS, "(">>,
      <<"@", "l", "a", "n", "g", BS, "(">>>>

BLADE_VARIABLE_PATTERNS == <<<<BS, "{", BS, "{", BS, "s", "*", BS, "$">>>>

BLADE_DIRECTIVE_PATTERN == <<"@", BS, "w", "+">>

BLADE_DIRECTIVE_WITH_ARGS_PATTERN == <<"@", BS, "w", "+", BS, "s", "*", BS, "(">>

\* re.finditer(pattern, text): the matches of the pattern
PatternMatches(pattern, text) == ReFindIter(ReParse(pattern, 0).items, text, 0)

\* re.search(r"open.*?close", text): "open" occurs and "close" occurs after
\* it with no line break in between
HasSpan(text, open, close) ==
    \E p \in 0..Len(text) :
        /\ HasAt(text, p, open)
        /\ Find(text, close, p + Len(open)) # Invalid
        /\ Find(Slice(text, p + Len(open), Find(text, close, p + Len(open))), <<NL>>, 0) = Invalid

\* BLADE_SYNTAX_PATTERN.search(text)
BLADE_SYNTAX_PATTERN(text) ==
    \/ ReSearch(ReParse(BLADE_DIRECTIVE_PATTERN, 0).items, text)
    \/ HasSpan(text, <<"{", "{">>, <<"}", "}">>)
    \/ HasSpan(text, <<"{", "!", "!">>, <<"!", "!", "}">>)
    \/ Find(text, TagOpen, 0) # Invalid
    \/ Find(text, TagClose, 0) # Invalid

\* BladeProcessor._should_exclude_text
should_exclude_text(text, min_bytes) ==
    \/ BLADE_SYNTAX_PATTERN(text)
    \/ \E k \in 1..Len(BLADE_TRANSLATION_PATTERNS) :
          ReSearch(ReParse(BLADE_TRANSLATION_PATTERNS[k], 0).items, text)
    \/ \E k \in 1..Len(BLADE_VARIABLE_PATTERNS) :
          ReSearch(ReParse(BLADE_VARIABLE_PATTERNS[k], 0).items, text)
    \/ ~should_extract_string(text, min_bytes)

\* re.sub(r"open.*?close", "", text, flags=re.DOTALL) from offset i on
RECURSIVE RemoveSpans(_, _, _, _)
RemoveSpans(text, open, close, i) ==
    IF Find(text, open, i) = Invalid
       \/ Find(text, close, Find(text, open, i) + Len(open)) = Invalid
    THEN SliceFrom(text, i)
    ELSE Slice(text, i, Find(text, open, i))
         \o RemoveSpans(text, open, close,
                        Find(text, close, Find(text, open, i) + Len(open)) + Len(close))

BladeCommentOpen == <<"{", "{", "-", "-">>
BladeCommentClose == <<"-", "-", "}", "}">>
HtmlCommentOpen == <<"<", "!", "-", "-">>
HtmlCommentClose == <<"-", "-", ">">>

\* BladeProcessor._remove_comments
remove_comments(text) ==
    RemoveSpans(RemoveSpans(text, BladeCommentOpen, BladeCommentClose, 0),
                HtmlCommentOpen, HtmlCommentClose, 0)

\* the depth loop of _find_closing_bracket from offset i on: the offset it
\* leaves at
RECURSIVE AfterParentheses(_, _, _)
AfterParentheses(text, i, depth) ==
    IF i >= Len(text) \/ depth <= 0 THEN i
    ELSE IF At(text, i) = "(" THEN AfterParentheses(text, i + 1, depth + 1)
    ELSE IF At(text, i) = ")" THEN AfterParentheses(text, i + 1, depth - 1)
    ELSE AfterParentheses(text, i + 1, depth)

\* the last loop of _find_closing_bracket from offset i on
ClosingBraces(text, i) ==
    IF {j \in i..(Len(text) - 1) : HasAt(text, j, <<"}", "}">>) \/ HasAt(text, j, <<"!", "!", "}">>)} = {}
    THEN Max({i, Len(text)})
    ELSE Min({j + (IF HasAt(text, j, <<"}", "}">>) THEN 2 ELSE 3) :
                 j \in {j \in i..(Len(text) - 1) :
                           /\ HasAt(text, j, <<"}", "}">>) \/ HasAt(text, j, <<"!", "!", "}">>)
                           /\ \A h \in i..(j - 1) :
                                 ~(HasAt(text, h, <<"}", "}">>) \/ HasAt(text, h, <<"!", "!", "}">>))}})

\* BladeProcessor._find_closing_bracket
find_closing_bracket(text, start) ==
    IF NextAt(text, start, {"(", "{"}) >= Len(text) THEN start
    ELSE IF At(text, NextAt(text, start, {"(", "{"})) = "("
    THEN ClosingBraces(text, AfterParentheses(text, NextAt(text, start, {"(", "{"}) + 1, 1))
    ELSE ClosingBraces(text, NextAt(text, start, {"(", "{"}))

\* the depth loop of _find_closing_parenthesis from offset i on
RECURSIVE ClosingParenthesis(_, _, _)
ClosingParenthesis(text, i, depth) ==
    IF depth = 0 THEN i - 1
    ELSE IF i >= Len(text) THEN Invalid
    ELSE IF At(text, i) \in {SQ, DQ}
    THEN ClosingParenthesis(text, SkipString(text, i + 1, At(text, i)).next, depth)
    ELSE IF At(text, i) = "(" THEN ClosingParenthesis(text, i + 1, depth + 1)
    ELSE IF At(text, i) = ")" THEN ClosingParenthesis(text, i + 1, depth - 1)
    ELSE ClosingParenthesis(text, i + 1, depth)

\* BladeProcessor._find_closing_parenthesis
find_closing_parenthesis(text, start) ==
    IF NextAt(text, start, {"("}) >= Len(text) THEN Invalid
    ELSE ClosingParenthesis(text, NextAt(text, start, {"("}) + 1, 1)

\* re.finditer(r"<style[^>]*>.*?</style>", text, re.DOTALL) from offset i on,
\* for a text in lower case
RECURSIVE StyleRanges(_, _)
StyleRanges(text, i) ==
    IF Find(text, <<"<", "s", "t", "y", "l", "e">>, i) = Invalid
       \/ Find(text, <<">">>, Find(text, <<"<", "s", "t", "y", "l", "e">>, i) + 6) = Invalid
       \/ Find(text, <<"<", "/", "s", "t", "y", "l", "e", ">">>,
               Find(text, <<">">>, Find(text, <<"<", "s", "t", "y", "l", "e">>, i) + 6) + 1) = Invalid
    THEN {}
    ELSE {[start |-> Find(text, <<"<", "s", "t", "y", "l", "e">>, i),
           end |-> Find(text, <<"<", "/", "s", "t", "y", "l", "e", ">">>,
                        Find(text, <<">">>, Find(text, <<"<", "s", "t", "y", "l", "e">>, i) + 6) + 1) + 8]}
         \cup StyleRanges(text, Find(text, <<"<", "/", "s", "t", "y", "l", "e", ">">>,
                                Find(text, <<">">>, Find(text, <<"<", "s", "t", "y", "l", "e">>, i) + 6) + 1) + 8)

\* the ranges the loops over the translation and the variable patterns add
BracketRanges(text, pattern_list) ==
    UNION {{[start |-> PatternMatches(pattern_list[k], text)[j].start,
             end |-> find_closing_bracket(text, PatternMatches(pattern_list[k], text)[j].start)] :
               j \in {j \in 1..Len(PatternMatches(pattern_list[k], text)) :
                         find_closing_bracket(text, PatternMatches(pattern_list[k], text)[j].start)
                             > PatternMatches(pattern_list[k], text)[j].start}} :
           k \in 1..Len(pattern_list)}

\* the ranges the loop over the directives with arguments adds, given the
\* matches of the pattern
DirectiveCallRanges(text, ms) ==
    {[start |-> ms[j].start, end |-> find_closing_parenthesis(text, ms[j].end - 1) + 1] :
        j \in {j \in 1..Len(ms) : find_closing_parenthesis(text, ms[j].end - 1) > ms[j].start}}

\* the ranges the loop over the other directives adds to `ranges`, given the
\* matches of the pattern
DirectiveRanges(ranges, ms) ==
    {[start |-> ms[j].start, end |-> ms[j].end] :
        j \in {j \in 1..Len(ms) :
                  ~\E r \in ranges : r.start <= ms[j].start /\ ms[j].start < r.end}}

\* BladeProcessor._identify_excluded_ranges up to the directives with arguments
RangesBeforeDirectives(text) ==
    StyleRanges(text, 0)
    \cup BracketRanges(text, BLADE_TRANSLATION_PATTERNS)
    \cup BracketRanges(text, BLADE_VARIABLE_PATTERNS)
    \cup DirectiveCallRanges(text, PatternMatches(BLADE_DIRECTIVE_WITH_ARGS_PATTERN, text))

\* BladeProcessor._identify_excluded_ranges(content) with self.php_ranges
identify_excluded_ranges(text, php_ranges) ==
    RangesBeforeDirectives(text)
    \cup DirectiveRanges(RangesBeforeDirectives(text), PatternMatches(BLADE_DIRECTIVE_PATTERN, text))
    \cup {php_ranges[k] : k \in 1..Len(php_ranges)}

\* BladeProcessor._is_in_excluded_range
is_in_excluded_range(ranges, pos) == \E r \in ranges : r.start <= pos /\ pos < r.end


\* BeautifulSoup(content, "lxml") on the markup this model writes, from
\* offset i on: the tags "<...>" and the character data between them, in
\* document order.  A comment is a part of its own kind.
RECURSIVE HtmlParts(_, _)
HtmlParts(text, i) ==
    IF i >= Len(text) THEN <<>>
    ELSE IF HasAt(text, i, HtmlCommentOpen) /\ Find(text, HtmlCommentClose, i + 4) # Invalid
    THEN <<[kind |-> "comment", text |-> Slice(text, i, Find(text, HtmlCommentClose, i + 4) + 3)]>>
         \o HtmlParts(text, Find(text, HtmlCommentClose, i + 4) + 3)
    ELSE IF At(text, i) = "<" /\ Find(text, <<">">>, i) # Invalid
    THEN <<[kind |-> "tag", text |-> Slice(text, i, Find(text, <<">">>, i) + 1)]>>
         \o HtmlParts(text, Find(text, <<">">>, i) + 1)
    ELSE <<[kind |-> "text", text |-> Slice(text, i, NextAt(text, i + 1, {"<"}))]>>
         \o HtmlParts(text, NextAt(text, i + 1, {"<"}))

\* BladeProcessor._find_all_occurrences from search_pos on, in self.content
RECURSIVE find_all_occurrences(_, _, _)
find_all_occurrences(file_text, text, search_pos) ==
    IF text = <<>> \/ Find(file_text, text, search_pos) = Invalid THEN <<>>
    ELSE <<[line |-> get_line_column(file_text, Find(file_text, text, search_pos))[1],
            column |-> get_line_column(file_text, Find(file_text, text, search_pos))[2],
            length |-> Len(text)]>>
         \o find_all_occurrences(file_text, text, Find(file_text, text, search_pos) + Len(text))

\* the entries _extract_text_nodes appends for one stripped line
OccurrenceEntries(text, occurrences) ==
    [j \in 1..Len(occurrences) |->
        [text |-> text, line |-> occurrences[j].line, column |-> occurrences[j].column,
         length |-> occurrences[j].length]]

\* the loop of _extract_text_nodes over text.splitlines() from line k on
RECURSIVE NodeLineEntries(_, _, _)
NodeLineEntries(file_text, lines, k) ==
    IF k > Len(lines) THEN <<>>
    ELSE (IF Strip(lines[k]) = <<>> THEN <<>>
          ELSE OccurrenceEntries(Strip(lines[k]), find_all_occurrences(file_text, Strip(lines[k]), 0)))
         \o NodeLineEntries(file_text, lines, k + 1)

\* text.splitlines(): no empty last line after a final line break
SplitLines(text) ==
    IF text # <<>> /\ text[Len(text)] = NL THEN SplitNL(Slice(text, 0, Len(text) - 1))
    ELSE IF text = <<>> THEN <<>> ELSE SplitNL(text)

\* BladeProcessor._extract_text_nodes from part k of the parsed markup on
RECURSIVE extract_text_nodes(_, _, _)
extract_text_nodes(file_text, parts, k) ==
    IF k > Len(parts) THEN <<>>
    ELSE (IF parts[k].kind # "text" \/ IsSpaceStr(parts[k].text) THEN <<>>
          ELSE NodeLineEntries(file_text, SplitLines(parts[k].text), 1))
         \o extract_text_nodes(file_text, parts, k + 1)

\* tag.get("title") of a tag of the parsed markup: the text between
\* title=" and the next quote, or nothing
AttrTitle == <<"t", "i", "t", "l", "e">>
TagGetTitle(tag) ==
    IF Find(tag, <<" ">> \o AttrTitle \o <<"=", DQ>>, 0) = Invalid
       \/ Find(tag, <<DQ>>, Find(tag, <<" ">> \o AttrTitle \o <<"=", DQ>>, 0) + 8) = Invalid
    THEN <<>>
    ELSE Slice(tag, Find(tag, <<" ">> \o AttrTitle \o <<"=", DQ>>, 0) + 8,
               Find(tag, <<DQ>>, Find(tag, <<" ">> \o AttrTitle \o <<"=", DQ>>, 0) + 8))

\* the while loop of _extract_attributes for the title attribute of value
\* attr_value, from search_pos on
RECURSIVE AttributeEntries(_, _, _)
AttributeEntries(file_text, attr_value, search_pos) ==
    IF Find(file_text, AttrTitle \o <<"=", DQ>> \o attr_value \o <<DQ>>, search_pos) = Invalid THEN <<>>
    ELSE <<[text |-> attr_value,
            line |-> get_line_column(
                         file_text,
                         Find(file_text, AttrTitle \o <<"=", DQ>> \o attr_value \o <<DQ>>, search_pos)
                             + Len(AttrTitle) + 2)[1],
            column |-> get_line_column(
                         file_text,
                         Find(file_text, AttrTitle \o <<"=", DQ>> \o attr_value \o <<DQ>>, search_pos)
                             + Len(AttrTitle) + 2)[2],
            length |-> Len(attr_value)]>>
         \o AttributeEntries(file_text, attr_value,
                             Find(file_text, AttrTitle \o <<"=", DQ>> \o attr_value \o <<DQ>>, search_pos)
                                 + Len(AttrTitle) + Len(attr_value) + 3)

\* BladeProcessor._extract_attributes from part k of the parsed markup on;
\* title is the one text attribute the markup of this model uses
RECURSIVE extract_attributes(_, _, _)
extract_attributes(file_text, parts, k) ==
    IF k > Len(parts) THEN <<>>
    ELSE (IF parts[k].kind # "tag" \/ TagGetTitle(parts[k].text) = <<>>
             \/ IsSpaceStr(TagGetTitle(parts[k].text))
          THEN <<>>
          ELSE AttributeEntries(file_text, TagGetTitle(parts[k].text), 0))
         \o extract_attributes(file_text, parts, k + 1)

\* BladeProcessor._extract_from_html(content) with self.content = file_text;
\* the markup of this model has no script element, so _extract_script_strings
\* adds nothing
extract_from_html(file_text, parts) ==
    extract_text_nodes(file_text, parts, 1) \o extract_attributes(file_text, parts, 1)

\* adjust_text_position without the trimming
AdjustNoStrip(text, column) == [text |-> text, column |-> column, length |-> Len(text)]

\* StringProcessor.adjust_text_position
adjust_text_position(text, column) ==
    [text |-> Strip(text), column |-> column + LeadingSpace(text), length |-> Len(Strip(text))]

\* the body of the filter loop of BladeProcessor.process for one entry of
\* html_results, where adjusted is what adjust_text_position returned for it
FilterEntry(file_text, ranges, line, adjusted, min_bytes) ==
    IF \/ adjusted.text = <<>>
       \/ should_exclude_text(adjusted.text, min_bytes)
       \/ is_in_excluded_range(ranges, get_position_from_line_column(file_text, line, adjusted.column))
    THEN <<>>
    ELSE <<[text |-> adjusted.text, line |-> line, column |-> adjusted.column,
            length |-> adjusted.length]>>

\* the filter loop of BladeProcessor.process over html_results from entry k on
RECURSIVE FilterHtmlResults(_, _, _, _, _)
FilterHtmlResults(file_text, ranges, html_results, min_bytes, k) ==
    IF k > Len(html_results) THEN <<>>
    ELSE FilterEntry(file_text, ranges, html_results[k].line,
                     adjust_text_position(html_results[k].text, html_results[k].column), min_bytes)
         \o FilterHtmlResults(file_text, ranges, html_results, min_bytes, k + 1)

\* BladeProcessor.process after the file is read, given what the steps
\* before the filter loop computed
ProcessWith(file_text, ranges, html_results, php, min_bytes) ==
    [results |-> FilterHtmlResults(file_text, ranges, html_results, min_bytes, 1) \o php.results,
     markup |-> FilterHtmlResults(file_text, ranges, html_results, min_bytes, 1),
     html_results |-> html_results,
     excluded |-> ranges,
     ranges |-> php.ranges]

\* BladeProcessor.process with an analyzer whose _excluded_ranges is `ranges`
BladeProcessor_process(ranges, file_text, min_bytes) ==
    ProcessWith(file_text,
                identify_excluded_ranges(remove_comments(file_text), extract_php_ranges(file_text, TRUE)),
                extract_from_html(file_text, HtmlParts(remove_comments(file_text), 0)),
                extract_from_php_blocks(ranges, file_text, extract_php_ranges(file_text, TRUE), 1,
                                        min_bytes),
                min_bytes)


\* --------------------------------------------------------------------
\* SpecBlade: a template of at most MaxMarkupToks fragments drawn from
\* MarkupFrags is processed by BladeProcessor.process
\* --------------------------------------------------------------------

MaxMarkupToks == 3

FragP == <<"<", "p", ">">>
FragPEnd == <<"<", "/", "p", ">">>
FragText == <<"H", "i">>
FragHtmlComment == <<"<", "!", "-", "-", "c", "o", "m", "m", "e", "n", "t", "-", "-", ">">>
FragBladeComment == <<"{", "{", "-", "-", "c", "-", "-", "}", "}">>
FragStyle == <<"<", "s", "t", "y", "l", "e", ">", "Y", "o", "<", "/", "s", "t", "y", "l", "e", ">">>
FragVariable == <<"{", "{", " ", "$", "v", " ", "}", "}">>
FragLang == <<"@", "l", "a", "n", "g", "(", "'", "H", "i", "'", ")">>
FragTitle == <<"<", "b", " ", "t", "i", "t", "l", "e", "=", DQ, " ", "Y", "o", DQ, ">">>
FragPhpBlock == <<"@", "p", "h", "p", " ", "'", "H", "i", "'", " ", "@", "e", "n", "d", "p", "h", "p">>
FragTransBraces == <<"{", "{", " ", "_", "_", "(", "'", "}", "}", "'", ")", " ", "}", "}">>
FragDirective == <<"@", "i", "f", "(", "'", "H", "i", "'", ")">>

MarkupFrags ==
    {FragP, FragPEnd, FragText, FragNewline, FragSpace, FragHtmlComment, FragBladeComment, FragStyle,
     FragVariable, FragLang, FragTitle, FragPhpBlock, FragTransBraces, FragDirective}

\* BladeProcessor(file_path, min_bytes).process(): self.content is the text
\* of the file, ret holds what process returned (results), the markup part
\* of it, and self.excluded_ranges
ProcessBlade ==
    /\ pc = "input"
    /\ \E x \in {BladeProcessor_process(excluded_ranges, content, DefaultMinBytes)} :
          /\ ret' = [processor |-> "blade", results |-> x.results, markup |-> x.markup,
                     html_results |-> x.html_results, excluded |-> x.excluded]
          /\ excluded_ranges' = x.ranges
    /\ pc' = "processed"
    /\ UNCHANGED <<content, arg, strings, patterns>>

NextBlade ==
    \/ \E fragment \in MarkupFrags : AnalyzerWrite(fragment, MaxMarkupToks)
    \/ ProcessBlade

SpecBlade == InitAnalyzer /\ [][NextBlade]_vars

\* the ranges of self.excluded_ranges that _identify_excluded_ranges found in
\* the markup: all but self.php_ranges
MarkupRanges(ranges, file_text) ==
    ranges \ {extract_php_ranges(file_text, TRUE)[k] : k \in 1..Len(extract_php_ranges(file_text, TRUE))}

\* C23: every range of excluded_ranges is a half-open offset range of the
\* original file text, the offset space of the fragment positions that
\* _is_in_excluded_range tests: the characters of the file between its bounds
\* are the style element, helper call, interpolation or directive it was
\* recorded for, also when a template or markup comment occurs earlier.
C23_RangesInOriginalOffsets ==
    pc = "processed" =>
        \A r \in MarkupRanges(ret.excluded, content) :
            Slice(content, r.start, r.end) = Slice(remove_comments(content), r.start, r.end)

\* the offset just after the first "}}" or "!!}" of text at or after offset
\* i that is outside a quoted string, or Invalid
RECURSIVE BracesCloser(_, _)
BracesCloser(text, i) ==
    IF i >= Len(text) THEN Invalid
    ELSE IF At(text, i) \in {SQ, DQ} THEN BracesCloser(text, SkipString(text, i + 1, At(text, i)).next)
    ELSE IF HasAt(text, i, <<"}", "}">>) THEN i + 2
    ELSE IF HasAt(text, i, <<"!", "!", "}">>) THEN i + 3
    ELSE BracesCloser(text, i + 1)

\* the offset just after the matching closer of the expression that starts at
\* offset start of text: ")" for a directive call such as @lang(, "}}" or
\* "!!}" for an interpolation
OwnCloser(text, start) ==
    IF At(text, start) = "@"
    THEN (IF find_closing_parenthesis(text, start) = Invalid THEN Invalid
          ELSE find_closing_parenthesis(text, start) + 1)
    ELSE BracesCloser(text, start + 2)

\* the ranges _identify_excluded_ranges recorded for the translation helpers
\* and the variable interpolations of the text
ExpressionRanges(text) ==
    BracketRanges(text, BLADE_TRANSLATION_PATTERNS) \cup BracketRanges(text, BLADE_VARIABLE_PATTERNS)

\* C24: the excluded range of a translation-helper or variable-interpolation
\* expression ends at that expression's own matching closer, closers inside
\* quoted string arguments skipped: no text after the closer is covered.
C24_RangeEndsAtOwnCloser ==
    pc = "processed" =>
        \A r \in ExpressionRanges(remove_comments(content)) :
            OwnCloser(remove_comments(content), r.start) # Invalid
                => r.end = OwnCloser(remove_comments(content), r.start)

\* C25: the markup path emits one fragment for each trimmed text-node
\* segment and each offset at which it occurs in the file: no two markup
\* entries of a result have the same text, line and column, also when the
\* same segment is the content of several text nodes.
C25_OneFragmentPerOccurrence ==
    pc = "processed" =>
        \A j, k \in 1..Len(ret.markup) :
            (/\ ret.markup[j].text = ret.markup[k].text
             /\ ret.markup[j].line = ret.markup[k].line
             /\ ret.markup[j].column = ret.markup[k].column) => j = k

\* --------------------------------------------------------------------
\* SpecEmit: a file of at most MaxEmitToks fragments drawn from EmitFrags
\* is processed as a PHP file or as a Blade template
\* --------------------------------------------------------------------

MaxEmitToks == 3

FragEscapeLiteral == <<"'", BS, "n", "'">>

EmitFrags ==
    {TagOpen, FragSpace, FragNewline, FragLiteral, FragLeadingNewlineLiteral, FragEscapeLiteral,
     FragP, FragText, FragTitle, FragPhpBlock}

NextEmit ==
    \/ \E fragment \in EmitFrags : AnalyzerWrite(fragment, MaxEmitToks)
    \/ ProcessPHP
    \/ ProcessBlade

SpecEmit == InitAnalyzer /\ [][NextEmit]_vars

\* an ExtractedString with a non-empty trimmed text, the length of its text
\* and a position in a file
WellFormed(r) ==
    /\ r.text # <<>>
    /\ r.text = Strip(r.text)
    /\ r.length = Len(r.text)
    /\ r.line >= 1
    /\ r.column >= 0

\* the basic validation should_extract_string of a path:
\* string_validator.should_extract_string in PHPProcessor,
\* StringProcessor.should_extract_string in BladeProcessor
BasicFilter(processor, text, min_bytes) ==
    IF processor = "php" THEN validator_should_extract_string(text, min_bytes)
    ELSE should_extract_string(text, min_bytes)

\* C26: every ExtractedString that PHPProcessor.process or
\* BladeProcessor.process emits has a non-empty text equal to its trimmed
\* form, length equal to the character count of the text, line >= 1,
\* column >= 0, and a text that the should_extract_string(text, min_bytes)
\* of its processor accepts.
C26_EmittedStringsWellFormed ==
    pc = "processed" =>
        \A k \in 1..Len(ret.results) :
            /\ WellFormed(ret.results[k])
            /\ BasicFilter(ret.processor, ret.results[k].text, DefaultMinBytes)

\* a template was processed and the value " Yo" of a title attribute was
\* emitted trimmed, one column further
C26_Witness ==
    /\ pc = "processed"
    /\ ret.processor = "blade"
    /\ \E k \in 1..Len(ret.results) :
          ret.results[k] = [text |-> <<"Y", "o">>, line |-> 1, column |-> 11, length |-> 2]

\* the occurrences that the add_string calls of the log `calls` from call k
\* on gave for `text` in the file `file`, in the order of the calls
RECURSIVE CallPositions(_, _, _, _)
CallPositions(calls, text, file, k) ==
    IF k > Len(calls) THEN <<>>
    ELSE (IF calls[k].text = text /\ Resolve(calls[k].file_path) = file
          THEN <<StringOccurrence(calls[k].line, 0, Len(calls[k].text))>>
          ELSE <<>>)
         \o CallPositions(calls, text, file, k + 1)

\* C27: after any sequence of n add_string calls, get_total_occurrences() is
\* n and get_string_count() is the number of distinct texts added; nothing
\* is ever removed and the positions of one (text, file) pair are in the
\* order of the calls: each file entry holds exactly the occurrences of the
\* calls made for its text and file, in call order, and every call has its
\* file entry.
C27_CountsAndCallOrder ==
    pc = "collect" =>
        /\ get_total_occurrences(strings) = Len(arg)
        /\ get_string_count(strings) = Cardinality({arg[n].text : n \in 1..Len(arg)})
        /\ \A i \in 1..Len(strings) : \A j \in 1..Len(strings[i].files) :
              strings[i].files[j].positions
                  = CallPositions(arg, strings[i].text, strings[i].files[j].file, 1)
        /\ \A n \in 1..Len(arg) :
              \E i \in 1..Len(strings) : \E j \in 1..Len(strings[i].files) :
                  /\ strings[i].text = arg[n].text
                  /\ strings[i].files[j].file = Resolve(arg[n].file_path)

\* three calls were made, two of them for the same text and the same
\* resolved file on different lines, one for another text
C27_Witness ==
    /\ pc = "collect"
    /\ Len(arg) = 3
    /\ arg[1].text = arg[2].text
    /\ arg[1].file_path = "a.php" /\ arg[2].file_path = "./a.php"
    /\ arg[1].line = 2 /\ arg[2].line = 1
    /\ arg[3].text # arg[1].text
    /\ get_total_occurrences(strings) = 3
    /\ get_string_count(strings) = 2

\* --------------------------------------------------------------------
\* SpecPaths: a script text of at most MaxPathToks fragments drawn from
\* PathFrags goes through the plain-script path and then, with the same
\* min_bytes, through the script-block path of a template
\* --------------------------------------------------------------------

MaxPathToks == 3

PathFrags ==
    {TagOpen, FragSpace, FragNewline, FragLiteral, FragEscapeLiteral, FragCall, FragSemicolon}

\* PHPProcessor(file_path, min_bytes).process() on a file that holds the text
PlainPath(min_bytes) ==
    /\ pc = "input"
    /\ ret' = [min_bytes |-> min_bytes, plain |-> PHPProcessor_process(content, min_bytes),
               template |-> <<>>]
    /\ pc' = "plain"
    /\ UNCHANGED <<content, arg, excluded_ranges, strings, patterns>>

\* PHPAnalyzer(min_bytes).extract_and_validate_strings(text,
\* StringProcessor.should_extract_string), the call BladeProcessor makes for
\* the content of a script block
TemplatePath ==
    /\ pc = "plain"
    /\ \E x \in {extract_and_validate_strings(excluded_ranges, content, ret.min_bytes)} :
          /\ ret' = [ret EXCEPT !.template = x.results]
          /\ excluded_ranges' = x.ranges
    /\ pc' = "compared"
    /\ UNCHANGED <<content, arg, strings, patterns>>

NextPaths ==
    \/ \E fragment \in PathFrags : AnalyzerWrite(fragment, MaxPathToks)
    \/ \E min_bytes \in MinBytesValues : PlainPath(min_bytes)
    \/ TemplatePath

SpecPaths == InitAnalyzer /\ [][NextPaths]_vars

\* C28: for the same script text and the same min_bytes, the plain-script
\* path and the script-block path of a template keep the same literals and
\* reject the same literals.
C28_PathsDecideAlike ==
    pc = "compared" => ret.plain = ret.template

\* ====================================================================
\* translate_files (actions/translate.py): the items of one input file
\*
\* An item is [text, translations]; its translations field is absent, false
\* or a dict from language codes to texts.
\* ====================================================================

NoTranslations == [l \in {} |-> ""]

Absent == [kind |-> "absent", dict |-> NoTranslations]
False == [kind |-> "false", dict |-> NoTranslations]
Dict(d) == [kind |-> "dict", dict |-> d]

\* identify_untranslated from item k on: the items that need translation, as
\* their indexes in data
RECURSIVE identify_untranslated(_, _, _)
identify_untranslated(data, languages, k) ==
    IF k > Len(data) THEN <<>>
    ELSE (IF data[k].translations.kind = "absent" THEN <<k>>
          ELSE IF data[k].translations.kind = "false" THEN <<>>
          ELSE IF \E n \in 1..Len(languages) : languages[n] \notin DOMAIN data[k].translations.dict
          THEN <<k>>
          ELSE <<>>)
         \o identify_untranslated(data, languages, k + 1)

\* "Match results with original items" of parse_xml_responses: the output
\* for the items of a batch, where `results` maps the texts found in the
\* response to false or to a dict of translations
MatchResults(data, batch, results) ==
    [n \in 1..Len(batch) |->
        IF data[batch[n]].text \in DOMAIN results
        THEN [text |-> data[batch[n]].text, translations |-> results[data[batch[n]].text]]
        ELSE [text |-> data[batch[n]].text, translations |-> Absent]]

\* the first item of data whose text is result_text, 0 if there is none
FirstWithText(data, result_text) ==
    IF \E i \in 1..Len(data) : data[i].text = result_text
    THEN Min({i \in 1..Len(data) : data[i].text = result_text})
    ELSE 0

\* original_item["translations"].update(translations), on {} when the item
\* has no dict yet
MergeTranslations(old, new) ==
    Dict([l \in (DOMAIN old.dict) \cup (DOMAIN new.dict) |->
             IF l \in DOMAIN new.dict THEN new.dict[l] ELSE old.dict[l]])

\* the body of "for result in results" for one result that names item i of
\* data (0: no item has its text)
UpdateItem(st, translations, i) ==
    IF i = 0 THEN st
    ELSE IF translations.kind = "false"
    THEN [st EXCEPT !.data[i].translations = False,
                    !.file_non_translatable = @ + 1]
    ELSE IF translations.kind = "dict"
    THEN [st EXCEPT !.data[i].translations = MergeTranslations(st.data[i].translations, translations),
                    !.file_translated = @ + 1]
    ELSE st

\* "Update items in data directly": the loop over the results from result k on
RECURSIVE UpdateItems(_, _, _)
UpdateItems(st, results, k) ==
    IF k > Len(results) THEN st
    ELSE IF results[k].text = "" THEN UpdateItems(st, results, k + 1)
    ELSE UpdateItems(UpdateItem(st, results[k].translations, FirstWithText(st.data, results[k].text)),
                     results, k + 1)

\* --------------------------------------------------------------------
\* SpecTranslateFiles: a file of at most MaxItems items is translated into
\* RequestedLanguages in batches; the provider answers each batch with a
\* parsed response, with an empty list, or raises
\* --------------------------------------------------------------------

MaxItems == 2

ItemTexts == {"Save", "Open"}
RequestedLanguages == <<"en", "ja">>

ItemTranslations ==
    {Absent, False,
     Dict([l \in {"en"} |-> "old"]),
     Dict([l \in {"en", "ja"} |-> "old"])}

\* what a response can hold for a text: the requested languages, false, or
\* nothing
ResponseTranslations == {Dict([l \in {"en", "ja"} |-> "new"]), False}
ParsedResponses == UNION {[texts -> ResponseTranslations] : texts \in SUBSET ItemTexts}

\* one more item of the input file
WriteItem(text, translations) ==
    /\ pc = "input"
    /\ arg < MaxItems
    /\ content' = Append(content, [text |-> text, translations |-> translations])
    /\ arg' = arg + 1
    /\ UNCHANGED <<pc, ret, excluded_ranges, strings, patterns>>

\* translate_files for one input file, up to the batch loop: json.load,
\* identify_untranslated, and the `continue` when nothing needs translation
LoadFile(batch_size) ==
    /\ pc = "input"
    /\ \E selected \in {identify_untranslated(content, RequestedLanguages, 1)} :
          /\ ret' = [data |-> content, items_to_translate |-> selected, batch_start |-> 0,
                     batch_size |-> batch_size, file_translated |-> 0,
                     file_non_translatable |-> 0, file_failed |-> 0]
          /\ pc' = IF selected = <<>> THEN "skipped" ELSE "batches"
    /\ UNCHANGED <<content, arg, excluded_ranges, strings, patterns>>

\* items_to_translate[batch_start:batch_end]
Batch(st) ==
    SubSeq(st.items_to_translate, st.batch_start + 1,
           Min({st.batch_start + st.batch_size, Len(st.items_to_translate)}))

\* one round of the batch loop in which provider.translate_batch returns the
\* list `results`
BatchReturns(results) ==
    /\ ret' = [UpdateItems(ret, results, 1) EXCEPT !.batch_start = @ + ret.batch_size]
    /\ UNCHANGED <<pc, content, arg, excluded_ranges, strings, patterns>>

\* the provider parsed a response: parse_xml_responses(content, items, languages)
BatchParsed(results) ==
    /\ pc = "batches"
    /\ ret.batch_start < Len(ret.items_to_translate)
    /\ BatchReturns(MatchResults(ret.data, Batch(ret), results))

\* the provider caught an error of the API and returned []
BatchEmpty ==
    /\ pc = "batches"
    /\ ret.batch_start < Len(ret.items_to_translate)
    /\ BatchReturns(<<>>)

\* provider.translate_batch raised: the except branch of the batch loop
BatchRaises ==
    /\ pc = "batches"
    /\ ret.batch_start < Len(ret.items_to_translate)
    /\ ret' = [ret EXCEPT !.file_failed = @ + Len(Batch(ret)),
                          !.batch_start = @ + ret.batch_size]
    /\ UNCHANGED <<pc, content, arg, excluded_ranges, strings, patterns>>

\* all batches done: json.dump(data) to the output file and the counts
SaveResult ==
    /\ pc = "batches"
    /\ ret.batch_start >= Len(ret.items_to_translate)
    /\ pc' = "saved"
    /\ UNCHANGED <<content, arg, ret, excluded_ranges, strings, patterns>>

NextTranslateFiles ==
    \/ \E text \in ItemTexts, translations \in ItemTranslations : WriteItem(text, translations)
    \/ \E batch_size \in 1..2 : LoadFile(batch_size)
    \/ \E results \in ParsedResponses : BatchParsed(results)
    \/ BatchEmpty
    \/ BatchRaises
    \/ SaveResult

SpecTranslateFiles == InitCommon /\ [][NextTranslateFiles]_vars

\* C29: translate_files changes the translations field only of the items
\* that identify_untranslated selected; every other item is written to the
\* output as it was read, whatever the provider returned, and the output
\* holds all items with their texts in the order of the input.
C29_OnlySelectedItemsChange ==
    pc = "saved" =>
        /\ Len(ret.data) = Len(content)
        /\ \A i \in 1..Len(content) :
              /\ ret.data[i].text = content[i].text
              /\ (\A n \in 1..Len(ret.items_to_translate) : ret.items_to_translate[n] # i)
                    => ret.data[i] = content[i]

\* C30: when all batches of a file are done, every selected item has been
\* counted once as translated, non-translatable or failed: the three counts
\* add up to the number of selected items.
C30_EverySelectedItemCounted ==
    pc = "saved" =>
        ret.file_translated + ret.file_non_translatable + ret.file_failed
            = Len(ret.items_to_translate)

====
